---- MODULE Spec2Model ----
(***************************************************************************)
(* Colour-mixture matching engine of chiaroscuro:                          *)
(*   src/src/utils/colorUtils.ts       findOptimalPaintMixture and passes  *)
(*   src/src/context/PaintContext.tsx  findPaintMixtures                   *)
(*   src/src/utils/colorConversion.ts  distance and class conversions      *)
(*   src/unnamed/part_006              the paint database                  *)
(*                                                                         *)
(* Numbers.  The source computes in IEEE doubles; the model computes in    *)
(* fixed point on integers:                                                *)
(*   LAB coordinates and distances   in 1/100 of a LAB unit                *)
(*   matchPercentage                 in 1/100 of a percent (10000 = 100%)  *)
(*   proportions and ladder ratios   in 1/1000 (1000 = 1.0)                *)
(*   dulling factors                 in 1/10000                            *)
(*   tinting strengths               in halves (High 4, Medium 2, Low 1)   *)
(*   opacities                       in quarters (O 4, SO 3, ST 2, T 1)    *)
(* Divisions truncate toward minus infinity (\div).                        *)
(***************************************************************************)
EXTENDS Integers, Sequences, FiniteSets, TLC

VARIABLES
    target,         \* targetLabColor / targetColor of the call
    catalog,        \* availablePaints: sequence of indexes into paintDatabase
    missing,        \* the arguments passed as null or undefined; the variable
                    \* of a missing argument holds a value that is never read
    pc,             \* position inside the running entry point
    fn,             \* which entry point runs: "none", "optimal", "mixtures"
    maxComponents,  \* findOptimalPaintMixture's third parameter
    recipes,        \* the local `recipes` array of the running entry point
    result,         \* the returned list
    ran,            \* passes invoked so far by findOptimalPaintMixture
    binaryMixes,    \* what findBinaryMixes returned (<<>> before it ran)
    uniqueRecipes,  \* the local `uniqueRecipes` array of findPaintMixtures
    recipesState,   \* the provider's `recipes` state, written by setRecipes
    paintCount,     \* availablePaints.length of a call on a large catalog
    hasWhitePaint,  \* whether that catalog holds a white paint
    hasBlackPaint,  \* whether that catalog holds a black paint
    loopIndex,      \* the outer loop variable i of the pass that is running
    attempts,       \* the local `attempts` counter of the pass that is running
    evaluated       \* candidates evaluated so far by the call, all passes

VARIABLES
    estPc,          \* position of a call of one of the two mixture estimators
    estPaints,      \* the paints of the call, indexes into paintDatabase
    estRatios,      \* ratio, or ratio1, ratio2, ratio3
    estAverage,     \* mixedLab before the dulling is applied
    estFactor,      \* dullingFactor
    estColor        \* the LAB colour the estimator returns

\* the state of a call of a mixture estimator
estimation == <<estPc, estPaints, estRatios, estAverage, estFactor, estColor>>

VARIABLES
    clusterPc,      \* position inside extractDominantColors / clusterColors
    colors,         \* the sampled RGB colours
    clusterK,       \* k
    centroids,      \* the k centroids
    clusters,       \* cluster assignment of each colour, 1..k for 0..k-1
    hasChanged,     \* an assignment changed in the last pass
    iterations,     \* passes done
    colorClusters,  \* what clusterColors returns
    swatches        \* what extractDominantColors returns

\* the state of a call of extractDominantColors from its sampled colours on
clustering == <<clusterPc, colors, clusterK, centroids, clusters, hasChanged,
                iterations, colorClusters, swatches>>

VARIABLES
    callPc,         \* position of a call of one helper of the searches
    callArgs,       \* the arguments of the call
    callResult      \* what the helper returns

helpers == <<callPc, callArgs, callResult>>

\* the state outside the two paint searches
analysis == <<estimation, clustering, helpers>>

vars == <<target, catalog, missing, pc, fn, maxComponents, recipes, result, ran,
          binaryMixes, uniqueRecipes, recipesState, paintCount, hasWhitePaint,
          hasBlackPaint, loopIndex, attempts, evaluated, estimation, clustering,
          helpers>>

\* the state of the loop counters
counters == <<paintCount, hasWhitePaint, hasBlackPaint, loopIndex, attempts,
              evaluated>>

\* the recipes a call has built
built == <<fn, maxComponents, recipes, result, ran, binaryMixes, uniqueRecipes,
           recipesState>>

\* the inputs of a call, which no step changes
inputs == <<target, catalog, missing>>

----------------------------------------------------------------------------
(* Bounds of the model *)

\* largest number of paints in a catalog
MaxCatalog == 3

----------------------------------------------------------------------------
(* Arithmetic helpers *)

Max(x, y) == IF x >= y THEN x ELSE y

Min(x, y) == IF x <= y THEN x ELSE y

Abs(x) == IF x >= 0 THEN x ELSE -x

\* Newton's iteration for the integer square root, from a start x at or
\* above the root
RECURSIVE SqrtNewton(_, _)
SqrtNewton(n, x) ==
    LET y == (x + n \div x) \div 2
    IN  IF y >= x THEN x ELSE SqrtNewton(n, y)

\* Math.sqrt on a non-negative integer: the floor of the square root
Sqrt(n) ==
    IF n = 0 THEN 0
    ELSE SqrtNewton(n, IF n < 1024 THEN 32
                       ELSE IF n < 65536 THEN 256
                       ELSE IF n < 4194304 THEN 2048
                       ELSE IF n < 268435456 THEN 16384
                       ELSE 46341)

\* atan(2^-i) for i = 0, 1, ..., in 1/1000 of a degree
AtanTable ==
    <<45000, 26565, 14036, 7125, 3576, 1790, 895, 448, 224, 112, 56, 28, 14, 7>>

RECURSIVE Cordic(_, _, _, _)
\* rotates (x, y), x > 0, onto the x axis and adds up the angle turned
Cordic(x, y, z, i) ==
    IF i > Len(AtanTable) \/ y = 0 THEN z
    ELSE LET p == 2 ^ (i - 1)
         IN  IF y > 0
             THEN Cordic(x + y \div p, y - x \div p, z + AtanTable[i], i + 1)
             ELSE Cordic(x + (-y) \div p, y + x \div p, z - AtanTable[i], i + 1)

\* Math.atan2(y, x) * (180 / Math.PI), in 1/1000 of a degree, in (-180, 180]
Atan2(y, x) ==
    IF x = 0 /\ y = 0 THEN 0
    ELSE (IF y >= 0 THEN 1 ELSE -1)
            * ((IF x >= 0 THEN 0 ELSE 180000)
               + (IF x >= 0 THEN 1 ELSE -1)
                    * Cordic(Abs(x) * 1024, Abs(y) * 1024, 0, 1))

\* sin of an angle x of 0..pi/2 given in 1/10000 of a radian, in 1/10000:
\* the Taylor series to the ninth power
SinQuadrant(x) ==
    LET x2 == (x * x) \div 10000
    IN  (x * (10000 - ((x2 * (10000 - ((x2 * (10000 - ((x2 *
            (10000 - x2 \div 72)) \div 10000) \div 42)) \div 10000)
                \div 20)) \div 10000) \div 6)) \div 10000

\* Math.sin of an angle in 1/1000 of a degree, in 1/10000
Sin(deg) ==
    LET d == deg % 360000
    IN  (IF d <= 180000 THEN 1 ELSE -1)
            * SinQuadrant(((IF d <= 90000 THEN d
                            ELSE IF d <= 180000 THEN 180000 - d
                            ELSE IF d <= 270000 THEN d - 180000
                            ELSE 360000 - d) * 17453) \div 100000)

\* Math.cos of an angle in 1/1000 of a degree, in 1/10000
Cos(deg) == Sin(deg + 90000)

\* e (in 1/10000) squared k times
RECURSIVE Squarings(_, _)
Squarings(e, k) ==
    IF k = 0 THEN e ELSE Squarings((e * e) \div 10000, k - 1)

\* Math.exp(-v), v >= 0 in 1/1000, in 1/10000: the series at v / 32,
\* squared five times
ExpMinus(v) ==
    IF v >= 9000 THEN 0
    ELSE LET y == (v * 10) \div 32
         IN  Squarings(10000 - (y * (10000 - (y * (10000 - (y *
                 (10000 - y \div 4)) \div 30000)) \div 20000)) \div 10000, 5)

\* scale * (x / 1000)^k
RECURSIVE ScaledPower(_, _, _)
ScaledPower(x, k, scale) ==
    IF k = 0 THEN scale ELSE (ScaledPower(x, k - 1, scale) * x) \div 1000

\* Array.prototype.slice(0, k)
Slice(s, k) == SubSeq(s, 1, Min(k, Len(s)))

\* a function on 1..n as an explicit tuple of its values
AsSeq(f) == f \o <<>>

RECURSIVE CountBelow(_, _, _, _)
\* how many values of the increasing function f on lo..hi, counted from
\* lo - 1 values already below, are less than x (binary search)
CountBelow(f, x, lo, hi) ==
    IF lo > hi THEN lo - 1
    ELSE LET mid == (lo + hi) \div 2
         IN  IF f[mid] < x THEN CountBelow(f, x, mid + 1, hi)
                           ELSE CountBelow(f, x, lo, mid - 1)

\* merge of two sorted index lists; on equal keys the left list goes first
MergeOrder(key, left, right) ==
    LET n == Len(left)
        m == Len(right)
        rightKey == AsSeq([j \in 1..m |-> key[right[j]]])
        \* place of left[i]: after the right elements of strictly smaller key
        place ==
            AsSeq([i \in 1..n |-> i + CountBelow(rightKey, key[left[i]], 1, m)])
    IN  AsSeq([k \in 1..(n + m) |->
            LET c == CountBelow(place, k + 1, 1, n)
            IN  IF c > 0 /\ place[c] = k THEN left[c] ELSE right[k - c]])

RECURSIVE SortOrder(_, _, _)
SortOrder(key, lo, hi) ==
    IF lo > hi THEN <<>>
    ELSE IF lo = hi THEN <<lo>>
    ELSE LET mid == (lo + hi) \div 2
         IN  MergeOrder(key, SortOrder(key, lo, mid), SortOrder(key, mid + 1, hi))

\* Array.prototype.sort with a comparator (a, b) => key(a) - key(b):
\* ascending in the key and stable (ECMAScript 2019), so elements that
\* compare equal keep their order.  key[i] is the key of s[i].
StableSort(s, key) ==
    LET values == AsSeq(s)
        order  == SortOrder(AsSeq(key), 1, Len(values))
    IN  AsSeq([k \in 1..Len(values) |-> values[order[k]]])

RECURSIVE SetToSeq(_)
\* the elements of a set of integers in increasing order
SetToSeq(S) ==
    IF S = {} THEN <<>>
    ELSE LET m == CHOOSE x \in S : \A y \in S : x <= y
         IN  <<m>> \o SetToSeq(S \ {m})

----------------------------------------------------------------------------
(* The paint catalogue: records of the paint database, LAB in 1/100 units. *)
(* `name` is the lower-cased name split into words.                        *)

Lab(l, a, b) == [L |-> l, a |-> a, b |-> b]

\* an optional field that is not set
undefined == [undefined |-> TRUE]

paintDatabase == <<
    [id |-> "wn-titanium-white", brand |-> "Winsor & Newton",
     name |-> <<"titanium", "white">>, pigmentCodes |-> {"PW6"},
     opacity |-> "O", tintingStrength |-> "High",
     hasLab |-> TRUE, lab |-> Lab(9630, -80, 260)],
    [id |-> "wn-cadmium-red", brand |-> "Winsor & Newton",
     name |-> <<"cadmium", "red">>, pigmentCodes |-> {"PR108"},
     opacity |-> "O", tintingStrength |-> "High",
     hasLab |-> TRUE, lab |-> Lab(5490, 7010, 5120)],
    [id |-> "wn-french-ultramarine", brand |-> "Winsor & Newton",
     name |-> <<"french", "ultramarine">>, pigmentCodes |-> {"PB29"},
     opacity |-> "SO", tintingStrength |-> "Medium",
     hasLab |-> TRUE, lab |-> Lab(3940, 1420, -4730)],
    [id |-> "wn-burnt-umber", brand |-> "Winsor & Newton",
     name |-> <<"burnt", "umber">>, pigmentCodes |-> {"PBr7"},
     opacity |-> "SO", tintingStrength |-> "Low",
     hasLab |-> TRUE, lab |-> Lab(3960, 1240, 2310)],
    [id |-> "wn-ivory-black", brand |-> "Winsor & Newton",
     name |-> <<"ivory", "black">>, pigmentCodes |-> {"PBk9"},
     opacity |-> "SO", tintingStrength |-> "High",
     hasLab |-> TRUE, lab |-> Lab(2460, -70, 40)],
    [id |-> "gamblin-titanium-white", brand |-> "Gamblin",
     name |-> <<"titanium", "white">>, pigmentCodes |-> {"PW6"},
     opacity |-> "O", tintingStrength |-> "High",
     hasLab |-> TRUE, lab |-> Lab(9640, -100, 280)],
    [id |-> "gamblin-alizarin-permanent", brand |-> "Gamblin",
     name |-> <<"alizarin", "permanent">>, pigmentCodes |-> {"PR177", "PR264"},
     opacity |-> "T", tintingStrength |-> "Medium",
     hasLab |-> TRUE, lab |-> Lab(4290, 5980, 2070)],
    \* a paint as the Paint type allows it: no lab, no tintingStrength
    [id |-> "custom-mixing-white", brand |-> "Winsor & Newton",
     name |-> <<"mixing", "white">>, pigmentCodes |-> {"PW4"},
     opacity |-> "ST", tintingStrength |-> "",
     hasLab |-> FALSE, lab |-> undefined],
    \* a black as the Paint type allows it: a lab, no tintingStrength
    [id |-> "custom-carbon-black", brand |-> "Winsor & Newton",
     name |-> <<"carbon", "black">>, pigmentCodes |-> {"PBk7"},
     opacity |-> "O", tintingStrength |-> "",
     hasLab |-> TRUE, lab |-> Lab(2200, 0, -50)]
>>

NumPaints == Len(paintDatabase)

\* paint.lab is present
HasLab(p) == paintDatabase[p].hasLab

PaintLab(p) == paintDatabase[p].lab

\* paint.name.toLowerCase().includes(words), on whole words
NameIncludes(p, words) ==
    LET nm == paintDatabase[p].name
    IN  \E i \in 1..Len(nm) :
            /\ i + Len(words) - 1 <= Len(nm)
            /\ SubSeq(nm, i, i + Len(words) - 1) = words

HasPigment(p, code) == code \in paintDatabase[p].pigmentCodes

----------------------------------------------------------------------------
(* colorConversion.ts *)

\* Math.sqrt(c^7 / (c^7 + 25^7)), c in 1/100, in 1/1000
ChromaSeventh(c) ==
    LET r  == (c * 2) \div 5
        q7 == ScaledPower((c * 2) \div 5, 7, 1000000)
    IN  IF r < 1000
        THEN Sqrt((q7 * 1000) \div ((q7 + 1000000) \div 1000))
        ELSE Sqrt(1000000
                  - 1000000000 \div (ScaledPower(Min(r, 2300), 7, 1000) + 1000))

\* L, C' and h' of a colour for the chroma compensation G (in 1/1000): C' in
\* 1/100, h' in 1/1000 of a degree, in [0, 360)
PrimedPolar(lab, G) ==
    LET aPrime == lab.a + (lab.a * G) \div 1000
    IN  [L |-> lab.L,
         C |-> Sqrt(aPrime * aPrime + lab.b * lab.b),
         h |-> (Atan2(lab.b, aPrime) + 360000) % 360000]

\* the differences dL', dC', dH' and the means of L', C' and h' of two
\* colours given by L, C' and h'
CiedeDifferences(p1, p2) ==
    LET achromatic == p1.C = 0 \/ p2.C = 0
        dh == IF achromatic THEN 0
              ELSE IF Abs(p2.h - p1.h) <= 180000 THEN p2.h - p1.h
              ELSE IF p2.h <= p1.h THEN p2.h - p1.h + 360000
              ELSE p2.h - p1.h - 360000
    IN  [dL   |-> p2.L - p1.L,
         dC   |-> p2.C - p1.C,
         dH   |-> (2 * Sqrt(p1.C * p2.C) * Sin(dh \div 2)) \div 10000,
         Lbar |-> (p1.L + p2.L) \div 2,
         Cbar |-> (p1.C + p2.C) \div 2,
         hbar |-> IF achromatic THEN p1.h + p2.h
                  ELSE IF Abs(p1.h - p2.h) <= 180000 THEN (p1.h + p2.h) \div 2
                  ELSE IF p1.h + p2.h < 360000
                       THEN (p1.h + p2.h + 360000) \div 2
                  ELSE (p1.h + p2.h - 360000) \div 2]

\* the weighted sum: tL, tC, tH are dL' / SL, dC' / SC, dH' / SH in 1/100 and
\* Rt the rotation RT in 1/10000; the products are kept below 2^31
CiedeSum(tL, tC, tH, Rt) ==
    LET cross == tC * tH
        rot   == IF Abs(cross) <= 100000 THEN (cross * Rt) \div 10000
                 ELSE IF Abs(cross) <= 10000000
                      THEN ((cross \div 100) * Rt) \div 100
                 ELSE (cross \div 10000) * Rt
    IN  Sqrt(Max(0, tL * tL + tC * tC + tH * tH + rot))

\* T of the hue weight SH, in 1/10000: 1 - 0.17 cos(h - 30) + 0.24 cos(2h)
\* + 0.32 cos(3h + 6) - 0.20 cos(4h - 63), summed up to the k-th term
RECURSIVE HueWeight(_, _)
HueWeight(hbar, k) ==
    IF k = 0 THEN 10000
    ELSE HueWeight(hbar, k - 1)
            + (<<-17, 24, 32, -20>>[k]
                  * Cos(k * hbar + <<-30000, 0, 6000, -63000>>[k])) \div 100

\* the weights SL, SC, SH (in 1/10000) and the rotation RT applied to the
\* differences d
CiedeWeighted(d) ==
    LET u  == Abs(d.hbar - 275000) \div 25
        dl == d.Lbar - 5000
    IN  CiedeSum((d.dL * 10000)
                    \div (10000 + (((dl * dl) \div 100) * 150)
                                      \div Sqrt(200000 + dl * dl)),
                 (d.dC * 10000) \div (10000 + (45 * d.Cbar) \div 10),
                 (d.dH * 10000)
                    \div (10000 + (((15 * d.Cbar) \div 10)
                                      * HueWeight(d.hbar, 4)) \div 10000),
                 -((Sin(6 * ExpMinus((u * u) \div 1000))
                       * 2 * ChromaSeventh(d.Cbar)) \div 1000))

\* the difference of two colours for the chroma compensation G
CiedeCompensated(std, smp, G) ==
    CiedeWeighted(CiedeDifferences(PrimedPolar(std, G), PrimedPolar(smp, G)))

\* differenceCiede2000 of the culori library, called as the declaration in
\* types/culori.d.ts gives it: the CIEDE2000 colour difference with
\* kL = kC = kH = 1, LAB and result in 1/100
differenceCiede2000(std, smp) ==
    CiedeCompensated(std, smp,
        (1000 - ChromaSeventh((Sqrt(std.a * std.a + std.b * std.b)
                                 + Sqrt(smp.a * smp.a + smp.b * smp.b)) \div 2))
            \div 2)

\* calculateDeltaE: the try branch.  The catch branch, the Euclidean
\* distance, runs only when the library throws, which it does not for
\* colours with three numbers.
calculateDeltaE(lab1, lab2) == differenceCiede2000(lab1, lab2)

opacityToNumeric(opacity) ==
    CASE opacity = "O"  -> 4
      [] opacity = "SO" -> 3
      [] opacity = "ST" -> 2
      [] opacity = "T"  -> 1
      [] OTHER          -> 2

tintingStrengthToNumeric(strength) ==
    CASE strength = "High"   -> 4
      [] strength = "Medium" -> 2
      [] strength = "Low"    -> 1
      [] OTHER               -> 2

\* calculateChroma
calculateChroma(lab) == Sqrt(lab.a * lab.a + lab.b * lab.b)

----------------------------------------------------------------------------
(* colorUtils.ts: constants *)

\* Maximum number of mix combinations to try
MAX_ATTEMPTS == 100000

\* Maximum number of paints in a mixture
MAX_COMPONENTS == 3

\* recipes[0].matchPercentage > 98: a perfect match, no need to continue
NearPerfectThreshold == 9800

\* recipes[0].matchPercentage < 90: ternary mixes are needed
TernaryThreshold == 9000

\* findOptimalPaintMixture: return the top 5
ReturnLimit == 5

\* for (ratio = 0.1; ratio <= 0.9; ratio += 0.1): nine values in doubles
RatioLadder == <<100, 200, 300, 400, 500, 600, 700, 800, 900>>

\* for (ratio = 0.7; ratio <= 0.98; ratio += 0.02): in doubles the sum
\* drifts upward, 0.9800000000000002 fails the test, fourteen values run
BlackLadder ==
    <<700, 720, 740, 760, 780, 800, 820, 840, 860, 880, 900, 920, 940, 960>>

\* ratioSets of the three-paint loop
TernaryRatioSets ==
    << <<700, 200, 100>>, <<600, 300, 100>>, <<500, 300, 200>>,
       <<400, 400, 200>>, <<330, 330, 340>> >>

\* ratioSets of the white-tint loop
WhiteTintRatioSets ==
    << <<700, 200, 100>>, <<500, 400, 100>>, <<400, 300, 300>> >>

----------------------------------------------------------------------------
(* colorUtils.ts: scoring and mixing *)

\* the linear score without its clamp to [0, 100]
deltaEToPercentageUnclamped(deltaE) == 10000 - deltaE * 5

\* deltaEToPercentage
deltaEToPercentage(deltaE) ==
    Max(0, Min(10000, 10000 - deltaE * 5))

\* adjustRatioForTintingStrength
adjustRatioForTintingStrength(ratio, tintStrength1, tintStrength2) ==
    LET adjustedRatio ==
            (ratio * tintStrength1 * 2) \div (tintStrength1 + tintStrength2)
    IN  Max(0, Min(1000, adjustedRatio))

\* the chroma scaling shared by the two estimators: a and b are multiplied
\* by reducedChroma / chroma, which is the dulling factor, when chroma > 0
ApplyDulling(mixedLab, dullingFactor) ==
    IF calculateChroma(mixedLab) > 0
    THEN [mixedLab EXCEPT !.a = (mixedLab.a * dullingFactor) \div 10000,
                          !.b = (mixedLab.b * dullingFactor) \div 10000]
    ELSE mixedLab

\* a factor that grows with the difference of the two paints
BinaryBrighteningFactor(p1, p2) ==
    LET deltaE   == calculateDeltaE(PaintLab(p1), PaintLab(p2))
        opacity1 == opacityToNumeric(paintDatabase[p1].opacity)
        opacity2 == opacityToNumeric(paintDatabase[p2].opacity)
    IN  10000 + (deltaE * 3 * (8 - Min(opacity1, opacity2))) \div 80

\* dullingFactor of estimateMixedColor:
\* 1 - (deltaE / 100) * 0.3 * (1 - min(opacity1, opacity2) * 0.5)
BinaryDullingFactor(p1, p2) ==
    LET deltaE   == calculateDeltaE(PaintLab(p1), PaintLab(p2))
        opacity1 == opacityToNumeric(paintDatabase[p1].opacity)
        opacity2 == opacityToNumeric(paintDatabase[p2].opacity)
    IN  10000 - (deltaE * 3 * (8 - Min(opacity1, opacity2))) \div 80

\* mixedLab of estimateMixedColor: the weighted average in LAB space
BinaryMixedLab(p1, p2, ratio) ==
    LET l1 == PaintLab(p1)
        l2 == PaintLab(p2)
    IN  Lab((l1.L * ratio + l2.L * (1000 - ratio)) \div 1000,
            (l1.a * ratio + l2.a * (1000 - ratio)) \div 1000,
            (l1.b * ratio + l2.b * (1000 - ratio)) \div 1000)

\* estimateMixedColor
estimateMixedColor(p1, p2, ratio) ==
    IF ~HasLab(p1) \/ ~HasLab(p2) THEN Lab(5000, 0, 0)
    ELSE ApplyDulling(BinaryMixedLab(p1, p2, ratio),
                      BinaryDullingFactor(p1, p2))

\* dullingFactor of estimateTernaryMixedColor:
\* 1 - (maxDeltaE / 100) * 0.4 * (1 - averageOpacity * 0.5)
TernaryDullingFactor(p1, p2, p3) ==
    LET maxDeltaE ==
            Max(calculateDeltaE(PaintLab(p1), PaintLab(p2)),
                Max(calculateDeltaE(PaintLab(p1), PaintLab(p3)),
                    calculateDeltaE(PaintLab(p2), PaintLab(p3))))
        opacitySum == opacityToNumeric(paintDatabase[p1].opacity)
                    + opacityToNumeric(paintDatabase[p2].opacity)
                    + opacityToNumeric(paintDatabase[p3].opacity)
    IN  10000 - (maxDeltaE * 4 * (24 - opacitySum)) \div 240

\* mixedLab of estimateTernaryMixedColor: the ratios are normalised by
\* their sum, then the weighted average in LAB space
TernaryMixedLab(p1, p2, p3, ratio1, ratio2, ratio3) ==
    LET sum == ratio1 + ratio2 + ratio3
        l1  == PaintLab(p1)
        l2  == PaintLab(p2)
        l3  == PaintLab(p3)
    IN  Lab((l1.L * ratio1 + l2.L * ratio2 + l3.L * ratio3) \div sum,
            (l1.a * ratio1 + l2.a * ratio2 + l3.a * ratio3) \div sum,
            (l1.b * ratio1 + l2.b * ratio2 + l3.b * ratio3) \div sum)

\* estimateTernaryMixedColor
estimateTernaryMixedColor(p1, p2, p3, ratio1, ratio2, ratio3) ==
    IF ~HasLab(p1) \/ ~HasLab(p2) \/ ~HasLab(p3) THEN Lab(5000, 0, 0)
    ELSE ApplyDulling(TernaryMixedLab(p1, p2, p3, ratio1, ratio2, ratio3),
                      TernaryDullingFactor(p1, p2, p3))

\* a MixingRecipe
Recipe(paints, matchPercentage, estimatedLabColor, description) ==
    [paints |-> paints, matchPercentage |-> matchPercentage,
     estimatedLabColor |-> estimatedLabColor, description |-> description]

Component(p, proportion) == [paint |-> p, proportion |-> proportion]

\* a sort by match percentage that puts, among equal scores, the recipe
\* of more components first
SortByMatchLongerFirst(s) ==
    StableSort(s, [i \in 1..Len(s) |->
                     -(s[i].matchPercentage * 4 + Len(s[i].paints))])

\* recipes.sort((a, b) => b.matchPercentage - a.matchPercentage)
SortByMatch(s) ==
    StableSort(s, [i \in 1..Len(s) |-> -s[i].matchPercentage])

----------------------------------------------------------------------------
(* colorUtils.ts: the three passes *)

\* findSinglePaintMatches
findSinglePaintMatches(t, cat) ==
    LET withLab == SelectSeq(cat, HasLab)
        matches == [i \in 1..Len(withLab) |->
                      Recipe(<<Component(withLab[i], 1000)>>,
                             deltaEToPercentage(
                                 calculateDeltaE(t, PaintLab(withLab[i]))),
                             PaintLab(withLab[i]), "")]
    IN  Slice(SortByMatch(matches), 10)

IsWhite(p) == HasPigment(p, "PW6") \/ NameIncludes(p, <<"white">>)

IsBlack(p) ==
    HasPigment(p, "PBk9") \/ HasPigment(p, "PBk11")
        \/ NameIncludes(p, <<"black">>)

\* one candidate of a two-paint ladder
BinaryCandidate(t, p1, p2, ratio, tint2) ==
    LET adjustedRatio ==
            adjustRatioForTintingStrength(ratio,
                tintingStrengthToNumeric(paintDatabase[p1].tintingStrength),
                tint2)
        mixedColor == estimateMixedColor(p1, p2, adjustedRatio)
    IN  Recipe(<<Component(p1, adjustedRatio),
                 Component(p2, 1000 - adjustedRatio)>>,
               deltaEToPercentage(calculateDeltaE(t, mixedColor)),
               mixedColor, "")

\* the body of a ratio loop: every ratio is tried, attempts++ each time
BinaryLadder(t, p1, p2, ladder, tint2, st) ==
    [matches  |-> st.matches \o
                    [k \in 1..Len(ladder) |->
                        BinaryCandidate(t, p1, p2, ladder[k], tint2)],
     attempts |-> st.attempts + Len(ladder)]

RECURSIVE BinaryInnerLoopNoSkip(_, _, _, _, _)
\* the j loop without its `if (!paint2.lab) continue`
BinaryInnerLoopNoSkip(t, cat, i, j, st) ==
    IF j > Len(cat) \/ st.attempts >= MAX_ATTEMPTS THEN st
    ELSE BinaryInnerLoopNoSkip(t, cat, i, j + 1,
            BinaryLadder(t, cat[i], cat[j], RatioLadder,
                tintingStrengthToNumeric(
                    paintDatabase[cat[j]].tintingStrength), st))

RECURSIVE BinaryInnerLoop(_, _, _, _, _)
\* for (j = i + 1; j < length && attempts < MAX_ATTEMPTS; j++)
BinaryInnerLoop(t, cat, i, j, st) ==
    IF j > Len(cat) \/ st.attempts >= MAX_ATTEMPTS THEN st
    ELSE IF ~HasLab(cat[j]) THEN BinaryInnerLoop(t, cat, i, j + 1, st)
    ELSE BinaryInnerLoop(t, cat, i, j + 1,
            BinaryLadder(t, cat[i], cat[j], RatioLadder,
                tintingStrengthToNumeric(
                    paintDatabase[cat[j]].tintingStrength), st))

\* "Also try mixing with white": whitePaints[0], when it has a LAB value
BinaryWhiteLadder(t, cat, i, st) ==
    LET whitePaints == SelectSeq(cat, IsWhite)
    IN  IF Len(whitePaints) > 0 /\ HasLab(whitePaints[1])
        THEN BinaryLadder(t, cat[i], whitePaints[1], RatioLadder,
                tintingStrengthToNumeric(
                    paintDatabase[whitePaints[1]].tintingStrength), st)
        ELSE st

\* "and black": blackPaints[0]; black is always High tinting strength
BinaryBlackLadder(t, cat, i, st) ==
    LET blackPaints == SelectSeq(cat, IsBlack)
    IN  IF Len(blackPaints) > 0 /\ HasLab(blackPaints[1])
        THEN BinaryLadder(t, cat[i], blackPaints[1], BlackLadder,
                tintingStrengthToNumeric("High"), st)
        ELSE st

RECURSIVE BinaryOuterLoop(_, _, _, _)
\* for (i = 0; i < length && attempts < MAX_ATTEMPTS; i++)
BinaryOuterLoop(t, cat, i, st) ==
    IF i > Len(cat) \/ st.attempts >= MAX_ATTEMPTS THEN st
    ELSE IF ~HasLab(cat[i]) THEN BinaryOuterLoop(t, cat, i + 1, st)
    ELSE BinaryOuterLoop(t, cat, i + 1,
            BinaryBlackLadder(t, cat, i,
                BinaryWhiteLadder(t, cat, i,
                    BinaryInnerLoop(t, cat, i, i + 1, st))))

\* findBinaryMixes
findBinaryMixes(t, cat) ==
    Slice(SortByMatch(
        BinaryOuterLoop(t, cat, 1, [matches |-> <<>>, attempts |-> 0]).matches),
        20)

\* closestPaints: the ten paints with a LAB value nearest to the target
ClosestPaints(t, cat) ==
    LET withLab == SelectSeq(cat, HasLab)
    IN  Slice(StableSort(withLab,
                  [i \in 1..Len(withLab) |->
                      calculateDeltaE(t, PaintLab(withLab[i]))]),
              10)

\* one candidate of the three-paint loop: ratios adjusted by tinting strength
TernaryCandidate(t, p1, p2, p3, rs) ==
    LET tintRatio1 == tintingStrengthToNumeric(paintDatabase[p1].tintingStrength)
        tintRatio2 == tintingStrengthToNumeric(paintDatabase[p2].tintingStrength)
        tintRatio3 == tintingStrengthToNumeric(paintDatabase[p3].tintingStrength)
        totalTinting == rs[1] * tintRatio1 + rs[2] * tintRatio2 + rs[3] * tintRatio3
        adjustedR1 == (rs[1] * tintRatio1 * 1000) \div totalTinting
        adjustedR2 == (rs[2] * tintRatio2 * 1000) \div totalTinting
        adjustedR3 == (rs[3] * tintRatio3 * 1000) \div totalTinting
        mixedColor == estimateTernaryMixedColor(p1, p2, p3,
                          adjustedR1, adjustedR2, adjustedR3)
    IN  Recipe(<<Component(p1, adjustedR1), Component(p2, adjustedR2),
                 Component(p3, adjustedR3)>>,
               deltaEToPercentage(calculateDeltaE(t, mixedColor)),
               mixedColor, "")

\* one candidate of the white-tint loop: the ratios are used as they are
WhiteTintCandidate(t, p1, p2, whitePaint, rs) ==
    LET mixedColor == estimateTernaryMixedColor(p1, p2, whitePaint,
                          rs[1], rs[2], rs[3])
    IN  Recipe(<<Component(p1, rs[1]), Component(p2, rs[2]),
                 Component(whitePaint, rs[3])>>,
               deltaEToPercentage(calculateDeltaE(t, mixedColor)),
               mixedColor, "")

RECURSIVE TernaryLoopK(_, _, _, _, _, _)
\* for (k = j + 1; k < length && attempts < MAX_ATTEMPTS; k++)
TernaryLoopK(t, cl, i, j, k, st) ==
    IF k > Len(cl) \/ st.attempts >= MAX_ATTEMPTS THEN st
    ELSE IF ~HasLab(cl[k]) THEN TernaryLoopK(t, cl, i, j, k + 1, st)
    ELSE TernaryLoopK(t, cl, i, j, k + 1,
            [matches  |-> st.matches \o
                [n \in 1..Len(TernaryRatioSets) |->
                    TernaryCandidate(t, cl[i], cl[j], cl[k],
                                     TernaryRatioSets[n])],
             attempts |-> st.attempts + Len(TernaryRatioSets)])

RECURSIVE TernaryLoopJ(_, _, _, _, _)
\* for (j = i + 1; j < length && attempts < MAX_ATTEMPTS; j++)
TernaryLoopJ(t, cl, i, j, st) ==
    IF j > Len(cl) \/ st.attempts >= MAX_ATTEMPTS THEN st
    ELSE IF ~HasLab(cl[j]) THEN TernaryLoopJ(t, cl, i, j + 1, st)
    ELSE TernaryLoopJ(t, cl, i, j + 1, TernaryLoopK(t, cl, i, j, j + 1, st))

RECURSIVE WhiteTintLoop(_, _, _, _, _, _)
\* for (j = 0; j < length && j !== i && attempts < MAX_ATTEMPTS; j++):
\* the loop ends at the first j equal to i
WhiteTintLoop(t, cl, whitePaint, i, j, st) ==
    IF j > Len(cl) \/ j = i \/ st.attempts >= MAX_ATTEMPTS THEN st
    ELSE IF ~HasLab(cl[j]) THEN WhiteTintLoop(t, cl, whitePaint, i, j + 1, st)
    ELSE WhiteTintLoop(t, cl, whitePaint, i, j + 1,
            [matches  |-> st.matches \o
                [n \in 1..Len(WhiteTintRatioSets) |->
                    WhiteTintCandidate(t, cl[i], cl[j], whitePaint,
                                       WhiteTintRatioSets[n])],
             attempts |-> st.attempts + Len(WhiteTintRatioSets)])

RECURSIVE TernaryLoopI(_, _, _, _, _)
\* for (i = 0; i < length && attempts < MAX_ATTEMPTS; i++);
\* whites is availablePaints filtered by the white test: find() is its head
TernaryLoopI(t, cl, whites, i, st) ==
    IF i > Len(cl) \/ st.attempts >= MAX_ATTEMPTS THEN st
    ELSE IF ~HasLab(cl[i]) THEN TernaryLoopI(t, cl, whites, i + 1, st)
    ELSE LET triples == TernaryLoopJ(t, cl, i, i + 1, st)
         IN  TernaryLoopI(t, cl, whites, i + 1,
                IF Len(whites) > 0 /\ HasLab(whites[1])
                THEN WhiteTintLoop(t, cl, whites[1], i, 1, triples)
                ELSE triples)

\* findTernaryMixes
findTernaryMixes(t, cat) ==
    Slice(SortByMatch(
        TernaryLoopI(t, ClosestPaints(t, cat), SelectSeq(cat, IsWhite), 1,
                     [matches |-> <<>>, attempts |-> 0]).matches),
        15)

\* the sorted id list of a recipe: paints.map(p => p.paint.id).sort()
SortedPaintIds(recipe) ==
    LET ids == [i \in 1..Len(recipe.paints) |-> recipe.paints[i].paint]
    IN  StableSort(ids, ids)

\* the isDuplicate test of removeRedundantRecipes
SamePaints(existing, recipe) ==
    /\ Len(existing.paints) = Len(recipe.paints)
    /\ SortedPaintIds(existing) = SortedPaintIds(recipe)

RECURSIVE RemoveLoop(_, _, _)
RemoveLoop(rs, i, unique) ==
    IF i > Len(rs) THEN unique
    ELSE RemoveLoop(rs, i + 1,
            IF \E n \in 1..Len(unique) : SamePaints(unique[n], rs[i])
            THEN unique
            ELSE Append(unique, rs[i]))

\* removeRedundantRecipes
removeRedundantRecipes(rs) == RemoveLoop(rs, 1, <<>>)

\* recipes.slice(0, 5)
TopRecipes(rs) == Slice(rs, ReturnLimit)

\* a search that never takes the perfect-match return
NeverPerfect(rs) == FALSE

\* recipes.length > 0 && recipes[0].matchPercentage > 98
PerfectMatchFound(rs) ==
    Len(rs) > 0 /\ rs[1].matchPercentage > NearPerfectThreshold

\* recipes.length === 0 || recipes[0].matchPercentage < 90
TernaryNeeded(rs) ==
    Len(rs) = 0 \/ rs[1].matchPercentage < TernaryThreshold

----------------------------------------------------------------------------
(* PaintContext.tsx: geometry *)

\* Math.sqrt(pow(dL, 2) + pow(da, 2) + pow(db, 2)): the distance written out
\* at every scoring site of findPaintMixtures
labDistance(lab1, lab2) ==
    Sqrt((lab1.L - lab2.L) * (lab1.L - lab2.L)
       + (lab1.a - lab2.a) * (lab1.a - lab2.a)
       + (lab1.b - lab2.b) * (lab1.b - lab2.b))

\* Math.max(0, Math.min(100, 100 - (dist * 2)))
mixMatchPercentage(dist) == Max(0, Min(10000, 10000 - dist * 2))

\* the weighted average in LAB space of two colours
mixLab(lab1, lab2, ratio) ==
    Lab((lab1.L * ratio + lab2.L * (1000 - ratio)) \div 1000,
        (lab1.a * ratio + lab2.a * (1000 - ratio)) \div 1000,
        (lab1.b * ratio + lab2.b * (1000 - ratio)) \div 1000)

\* a fallback recipe that scores 0
fallbackRecipeAtZero ==
    [paints |-> << [paint |-> 0, proportion |-> 1000] >>, matchPercentage |-> 0,
     estimatedLabColor |-> undefined, description |-> ""]

\* the recipe around the "error-fallback" paint, which is no database paint
fallbackRecipe ==
    Recipe(<<Component(0, 1000)>>, 5000, undefined, "")

\* findComplementaryPaints
findComplementaryPaints(paint, availablePaints) ==
    IF ~HasLab(paint) THEN <<>>
    ELSE LET hueAngle == Atan2(PaintLab(paint).b, PaintLab(paint).a)
             complementaryHue == (hueAngle + 180000) % 360000
             candidates ==
                SelectSeq(availablePaints,
                    LAMBDA q : /\ HasLab(q)
                               /\ paintDatabase[q].id # paintDatabase[paint].id
                               /\ paintDatabase[q].brand = paintDatabase[paint].brand)
             hueDiff ==
                [i \in 1..Len(candidates) |->
                    LET pHueAngle == Atan2(PaintLab(candidates[i]).b,
                                           PaintLab(candidates[i]).a)
                        d == Abs(pHueAngle - complementaryHue)
                    IN  IF d > 180000 THEN 360000 - d ELSE d]
         IN  Slice(StableSort(candidates, hueDiff), 3)

\* findChromaticBlackPairs; availablePaints.find(test) is the head of the
\* paints that pass the test
findChromaticBlackPairs(paints) ==
    LET burntUmber == SelectSeq(paints, LAMBDA q :
            \/ NameIncludes(q, <<"burnt", "umber">>)
            \/ (HasPigment(q, "PBr7") /\ NameIncludes(q, <<"umber">>)))
        burntSienna == SelectSeq(paints, LAMBDA q :
            \/ NameIncludes(q, <<"burnt", "sienna">>)
            \/ (HasPigment(q, "PBr7") /\ NameIncludes(q, <<"sienna">>)))
        ultramarine == SelectSeq(paints, LAMBDA q :
            NameIncludes(q, <<"ultramarine">>) /\ HasPigment(q, "PB29"))
        phthaloBlue == SelectSeq(paints, LAMBDA q :
            /\ \/ NameIncludes(q, <<"phthalo", "blue">>)
               \/ NameIncludes(q, <<"phthalocyanine", "blue">>)
            /\ HasPigment(q, "PB15:3"))
        phthaloGreen == SelectSeq(paints, LAMBDA q :
            /\ \/ NameIncludes(q, <<"phthalo", "green">>)
               \/ NameIncludes(q, <<"phthalocyanine", "green">>)
            /\ (HasPigment(q, "PG7") \/ HasPigment(q, "PG36")))
        alizarinCrimson == SelectSeq(paints, LAMBDA q :
            \/ NameIncludes(q, <<"alizarin">>)
            \/ NameIncludes(q, <<"crimson", "permanent">>)
            \/ HasPigment(q, "PR83")
            \/ HasPigment(q, "PR177"))
        has(found) == Len(found) > 0
    IN  [warm    |-> IF has(burntUmber) /\ has(ultramarine)
                     THEN <<burntUmber[1], ultramarine[1]>>
                     ELSE IF has(burntSienna) /\ has(ultramarine)
                     THEN <<burntSienna[1], ultramarine[1]>>
                     ELSE <<>>,
         cool    |-> IF has(phthaloBlue) /\ has(alizarinCrimson)
                     THEN <<phthaloBlue[1], alizarinCrimson[1]>>
                     ELSE IF has(ultramarine) /\ has(alizarinCrimson)
                     THEN <<ultramarine[1], alizarinCrimson[1]>>
                     ELSE <<>>,
         neutral |-> IF has(phthaloGreen) /\ has(alizarinCrimson)
                     THEN <<phthaloGreen[1], alizarinCrimson[1]>>
                     ELSE <<>>]

\* getColorTemperature: warmth > coolness + 15, coolness > warmth + 15
getColorTemperature(lab) ==
    LET warmth   == lab.a + lab.b
        coolness == -lab.a - lab.b
    IN  IF warmth > coolness + 1500 THEN "warm"
        ELSE IF coolness > warmth + 1500 THEN "cool"
        ELSE "neutral"

\* const isDarkColor = targetColor.L < 40
isDarkColor(t) == t.L < 4000

\* paintsWithLab
PaintsWithLab(cat) == SelectSeq(cat, HasLab)

\* sortedPaints: paintsWithLab by distance to the target, nearest first
SortedPaints(t, cat) ==
    LET withLab == PaintsWithLab(cat)
    IN  StableSort(withLab,
            [i \in 1..Len(withLab) |-> labDistance(PaintLab(withLab[i]), t)])

\* 1. the three nearest paints, each kept when it scores above 50
MixSingleMatches(t, cat) ==
    LET sorted == SortedPaints(t, cat)
        top == [i \in 1..Min(3, Len(sorted)) |->
                  Recipe(<<Component(sorted[i], 1000)>>,
                         mixMatchPercentage(labDistance(PaintLab(sorted[i]), t)),
                         PaintLab(sorted[i]), "")]
    IN  SelectSeq(top, LAMBDA r : r.matchPercentage > 5000)

----------------------------------------------------------------------------
(* PaintContext.tsx: the per-brand passes of findPaintMixtures *)

RECURSIVE ConcatFrom(_, _)
ConcatFrom(ss, i) == IF i > Len(ss) THEN <<>> ELSE ss[i] \o ConcatFrom(ss, i + 1)

\* the concatenation of a sequence of sequences
Concat(ss) == ConcatFrom(AsSeq(ss), 1)

RECURSIVE Distinct(_, _)
\* Array.from(new Set(s)): first occurrences, in order
Distinct(s, seen) ==
    IF s = <<>> THEN <<>>
    ELSE IF s[1] \in seen THEN Distinct(Tail(s), seen)
    ELSE <<s[1]>> \o Distinct(Tail(s), seen \cup {s[1]})

\* Object.entries(paintsByBrand): brand names in order of first appearance
BrandsOf(paints) ==
    Distinct([i \in 1..Len(paints) |-> paintDatabase[paints[i]].brand], {})

\* paintsByBrand[brand]
BrandPaints(paints, brand) ==
    SelectSeq(paints, LAMBDA q : paintDatabase[q].brand = brand)

\* the chromatic black pair chosen for the target's temperature
ChooseBlackPair(t, chromaticBlacks) ==
    LET targetTemperature == getColorTemperature(t)
    IN  IF targetTemperature = "warm" /\ Len(chromaticBlacks.warm) >= 2
        THEN chromaticBlacks.warm
        ELSE IF targetTemperature = "cool" /\ Len(chromaticBlacks.cool) >= 2
        THEN chromaticBlacks.cool
        ELSE IF Len(chromaticBlacks.neutral) >= 2 THEN chromaticBlacks.neutral
        ELSE IF Len(chromaticBlacks.warm) >= 2 THEN chromaticBlacks.warm
        ELSE IF Len(chromaticBlacks.cool) >= 2 THEN chromaticBlacks.cool
        ELSE <<>>

\* for (let whiteRatio of [0.1, 0.2, 0.3])
WhiteRatios == <<100, 200, 300>>

\* A. chromatic black pair + the brand's white, for a dark target
ChromaticBlackRecipes(t, paintsWithLab, brandPaints) ==
    LET blackPair == ChooseBlackPair(t, findChromaticBlackPairs(paintsWithLab))
        whites == SelectSeq(brandPaints, LAMBDA q : NameIncludes(q, <<"white">>))
    IN  IF isDarkColor(t) /\ Len(blackPair) = 2 /\ Len(whites) > 0
        THEN LET whitePaint == whites[1]
                 l1 == PaintLab(blackPair[1])
                 l2 == PaintLab(blackPair[2])
                 mixedBlackLab == Lab((l1.L + l2.L) \div 2, (l1.a + l2.a) \div 2,
                                      (l1.b + l2.b) \div 2)
                 made == [n \in 1..Len(WhiteRatios) |->
                    LET whiteRatio == WhiteRatios[n]
                        blackRatio == 1000 - whiteRatio
                        mixedLab   == mixLab(mixedBlackLab, PaintLab(whitePaint),
                                             blackRatio)
                    IN  Recipe(<<Component(blackPair[1], blackRatio \div 2),
                                 Component(blackPair[2], blackRatio \div 2),
                                 Component(whitePaint, whiteRatio)>>,
                               mixMatchPercentage(labDistance(mixedLab, t)),
                               mixedLab, "")]
             IN  SelectSeq(made, LAMBDA r : r.matchPercentage > 6000)
        ELSE <<>>

\* candidatePaints: the five closest by value and the five closest by hue
CandidatePaints(t, brandPaints) ==
    LET closestByValue ==
            Slice(StableSort(brandPaints,
                [i \in 1..Len(brandPaints) |->
                    Abs(PaintLab(brandPaints[i]).L - t.L)]), 5)
        closestByHue ==
            Slice(StableSort(brandPaints,
                [i \in 1..Len(brandPaints) |->
                    LET da == PaintLab(brandPaints[i]).a - t.a
                        db == PaintLab(brandPaints[i]).b - t.b
                    IN  Sqrt(da * da + db * db)]), 5)
    IN  Distinct(closestByValue \o closestByHue, {})

\* for (let ratio of [0.2, 0.35, 0.5, 0.65, 0.8])
PairRatios == <<200, 350, 500, 650, 800>>

\* the adjustment without the inversion for a lighter paint2: the ideal share
\* of the lighter paint given to paint1 whichever paint is the lighter
ValueAdjustedRatioUninverted(t, paint1, paint2, ratio) ==
    LET L1 == PaintLab(paint1).L
        L2 == PaintLab(paint2).L
    IN  IF Abs(L1 - L2) > 2000 /\ t.L > Min(L1, L2) /\ t.L < Max(L1, L2)
        THEN Min(900, Max(100, ((t.L - Min(L1, L2)) * 1000) \div Abs(L1 - L2)))
        ELSE ratio

\* adjustedRatio: the ratio that lands on the target's lightness when the
\* two values differ by more than 20 and the target lies between them
ValueAdjustedRatio(t, paint1, paint2, ratio) ==
    LET L1 == PaintLab(paint1).L
        L2 == PaintLab(paint2).L
        lighterIsPaint1 == L1 > L2
        lighterL == IF lighterIsPaint1 THEN L1 ELSE L2
        darkerL  == IF lighterIsPaint1 THEN L2 ELSE L1
    IN  IF Abs(L1 - L2) > 2000 /\ t.L > darkerL /\ t.L < lighterL
        THEN LET idealRatio == ((t.L - darkerL) * 1000) \div (lighterL - darkerL)
             IN  IF lighterIsPaint1
                 THEN Min(900, Max(100, idealRatio))
                 ELSE Min(900, Max(100, 1000 - idealRatio))
        ELSE ratio

\* the recipes of one pair of candidate paints
PairRecipes(t, paint1, paint2) ==
    LET hue1 == Atan2(PaintLab(paint1).b, PaintLab(paint1).a)
        hue2 == Atan2(PaintLab(paint2).b, PaintLab(paint2).a)
    IN  IF Abs(hue1 - hue2) < 11459 THEN <<>>
        ELSE LET made == [n \in 1..Len(PairRatios) |->
                    LET adjustedRatio ==
                            ValueAdjustedRatio(t, paint1, paint2, PairRatios[n])
                        mixedLab == mixLab(PaintLab(paint1), PaintLab(paint2),
                                           adjustedRatio)
                    IN  Recipe(<<Component(paint1, adjustedRatio),
                                 Component(paint2, 1000 - adjustedRatio)>>,
                               mixMatchPercentage(labDistance(mixedLab, t)),
                               mixedLab, "")]
             IN  SelectSeq(made, LAMBDA r : r.matchPercentage > 7000)

\* B. pairs of candidate paints
HarmoniousPairRecipes(t, brandPaints) ==
    LET candidatePaints == CandidatePaints(t, brandPaints)
        n == Len(candidatePaints)
    IN  Concat([i \in 1..n |->
            Concat([k \in 1..(n - i) |->
                PairRecipes(t, candidatePaints[i], candidatePaints[i + k])])])

\* for (let ratio of [0.85, 0.9, 0.95])
ComplementRatios == <<850, 900, 950>>

\* C. the brand's first paint with a touch of its complement
ComplementRecipes(t, brandPaints) ==
    LET topPaint == brandPaints[1]
        complementaryPaints == findComplementaryPaints(topPaint, brandPaints)
    IN  IF Len(complementaryPaints) > 0
        THEN LET complement == complementaryPaints[1]
                 made == [n \in 1..Len(ComplementRatios) |->
                    LET ratio == ComplementRatios[n]
                        mixedLab == mixLab(PaintLab(topPaint),
                                           PaintLab(complement), ratio)
                    IN  Recipe(<<Component(topPaint, ratio),
                                 Component(complement, 1000 - ratio)>>,
                               mixMatchPercentage(labDistance(mixedLab, t)),
                               mixedLab, "")]
             IN  SelectSeq(made, LAMBDA r : r.matchPercentage > 6500)
        ELSE <<>>

\* 2. Object.entries(paintsByBrand).forEach: brands of fewer than two
\* paints are skipped
BrandRecipes(t, cat) ==
    LET paintsWithLab == PaintsWithLab(cat)
        brands == BrandsOf(paintsWithLab)
    IN  Concat([n \in 1..Len(brands) |->
            LET brandPaints == BrandPaints(paintsWithLab, brands[n])
            IN  IF Len(brandPaints) < 2 THEN <<>>
                ELSE ChromaticBlackRecipes(t, paintsWithLab, brandPaints)
                        \o HarmoniousPairRecipes(t, brandPaints)
                        \o ComplementRecipes(t, brandPaints)])

----------------------------------------------------------------------------
(* PaintContext.tsx: de-duplication, the extra recipes, descriptions, order *)

\* Math.round(p.proportion * 10)
RoundedTenths(proportion) == (proportion + 50) \div 100

\* the key of a recipe: its "id-tenths" strings, sorted and joined; here the
\* sorted list of (paint, tenths) codes
PaintComboKey(recipe) ==
    LET codes == [i \in 1..Len(recipe.paints) |->
                    recipe.paints[i].paint * 100
                        + RoundedTenths(recipe.paints[i].proportion)]
    IN  StableSort(codes, codes)

\* Stop after we have 5 unique recipes
UniqueLimit == 5

RECURSIVE UniqueLoop(_, _, _, _)
\* for (const recipe of finalRecipes): keep a recipe whose key is new,
\* break once five are kept
UniqueLoop(rs, i, seenPaintCombos, unique) ==
    IF i > Len(rs) \/ Len(unique) >= UniqueLimit THEN unique
    ELSE LET paintIds == PaintComboKey(rs[i])
         IN  IF paintIds \in seenPaintCombos
             THEN UniqueLoop(rs, i + 1, seenPaintCombos, unique)
             ELSE UniqueLoop(rs, i + 1, seenPaintCombos \cup {paintIds},
                             Append(unique, rs[i]))

\* the first five recipes, whether or not their keys repeat
KeepFirst(rs) == Slice(rs, UniqueLimit)

\* "Remove duplicates and take top results"
KeepUnique(rs) == UniqueLoop(rs, 1, {}, <<>>)

\* sort by match percentage, remove duplicates, take the top five, and
\* "always ensure we have at least one recipe"
UniqueRecipes(t, cat, rs) ==
    LET kept == KeepUnique(SortByMatch(rs))
        sortedPaints == SortedPaints(t, cat)
    IN  IF Len(kept) = 0 /\ Len(sortedPaints) > 0
        THEN <<Recipe(<<Component(sortedPaints[1], 1000)>>, 7000,
                      PaintLab(sortedPaints[1]), "")>>
        ELSE IF Len(kept) = 0 THEN <<fallbackRecipe>>
        ELSE kept

RecipeNameIncludes(recipe, words) ==
    \E i \in 1..Len(recipe.paints) : NameIncludes(recipe.paints[i].paint, words)

\* hasDirectMatch
hasDirectMatch(unique) ==
    \E n \in 1..Len(unique) :
        LET r == unique[n]
        IN  \/ Len(r.paints) = 1
            \/ r.description = "Direct match with a single paint"
            \/ \A i \in 1..Len(r.paints) :
                  /\ ~NameIncludes(r.paints[i].paint, <<"ultramarine">>)
                  /\ ~NameIncludes(r.paints[i].paint, <<"umber">>)
                  /\ ~NameIncludes(r.paints[i].paint, <<"phthalo">>)
                  /\ ~NameIncludes(r.paints[i].paint, <<"crimson">>)

\* hasChromatic
hasChromatic(unique) ==
    \E n \in 1..Len(unique) :
        LET r == unique[n]
        IN  /\ Len(r.paints) >= 2
            /\ (RecipeNameIncludes(r, <<"ultramarine">>)
                   \/ RecipeNameIncludes(r, <<"phthalo">>))
            /\ (RecipeNameIncludes(r, <<"umber">>)
                   \/ RecipeNameIncludes(r, <<"crimson">>))

\* the direct-match recipe pushed for a dark target that has none:
\* Math.max(60, 100 - calculateDeltaE(bestPaint.lab, targetColor) * 2)
DirectMatchRecipe(t, bestPaint) ==
    Recipe(<<Component(bestPaint, 1000)>>,
           Max(6000, 10000 - calculateDeltaE(PaintLab(bestPaint), t) * 2),
           PaintLab(bestPaint), "Direct match with a single paint")

\* the 50/50 chromatic black pushed for a dark target that has none
ExtraChromaticRecipes(t, paintsWithLab) ==
    LET ultramarineOrPhthalo == SelectSeq(paintsWithLab, LAMBDA q :
            NameIncludes(q, <<"ultramarine">>) \/ NameIncludes(q, <<"phthalo">>))
        umberOrCrimson == SelectSeq(paintsWithLab, LAMBDA q :
            NameIncludes(q, <<"umber">>) \/ NameIncludes(q, <<"crimson">>))
    IN  IF Len(ultramarineOrPhthalo) > 0 /\ Len(umberOrCrimson) > 0
        THEN LET mixedLab == mixLab(PaintLab(ultramarineOrPhthalo[1]),
                                    PaintLab(umberOrCrimson[1]), 500)
             IN  <<Recipe(<<Component(ultramarineOrPhthalo[1], 500),
                            Component(umberOrCrimson[1], 500)>>,
                          mixMatchPercentage(labDistance(mixedLab, t)), mixedLab,
                          "Chromatic black mixture (richer, more natural darks)")>>
        ELSE <<>>

\* "Ensure we have both direct match and chromatic black recipes"
WithExtraRecipes(t, cat, unique) ==
    LET sortedPaints == SortedPaints(t, cat)
        direct == IF isDarkColor(t) /\ ~hasDirectMatch(unique)
                     /\ Len(sortedPaints) > 0
                  THEN <<DirectMatchRecipe(t, sortedPaints[1])>>
                  ELSE <<>>
        chromatic == IF isDarkColor(t) /\ ~hasChromatic(unique)
                     THEN ExtraChromaticRecipes(t, PaintsWithLab(cat))
                     ELSE <<>>
    IN  unique \o direct \o chromatic

\* the description given to a recipe that has none
DescriptionOf(recipe) ==
    IF Len(recipe.paints) = 1 THEN "Direct match with a single paint"
    ELSE IF Len(recipe.paints) = 2
    THEN IF RecipeNameIncludes(recipe, <<"white">>)
         THEN "Tint mixture (adding white to adjust value)"
         ELSE IF RecipeNameIncludes(recipe, <<"yellow">>)
         THEN "Warm tint mixture (adding yellow to brighten)"
         ELSE IF Len(findComplementaryPaints(recipe.paints[1].paint,
                                             <<recipe.paints[2].paint>>)) > 0
         THEN "Chroma reduction using complementary colors"
         ELSE IF /\ (RecipeNameIncludes(recipe, <<"ultramarine">>)
                        \/ RecipeNameIncludes(recipe, <<"phthalo">>))
                 /\ (RecipeNameIncludes(recipe, <<"umber">>)
                        \/ RecipeNameIncludes(recipe, <<"crimson">>))
         THEN "Chromatic black mixture (richer, more natural darks)"
         ELSE "Traditional binary mixture for hue adjustment"
    ELSE IF Len(recipe.paints) = 3
    THEN IF \/ (RecipeNameIncludes(recipe, <<"ultramarine">>)
                   /\ RecipeNameIncludes(recipe, <<"umber">>))
            \/ (RecipeNameIncludes(recipe, <<"phthalo">>)
                   /\ RecipeNameIncludes(recipe, <<"crimson">>))
         THEN "Chromatic black mixture with value adjustment"
         ELSE "Complex mixture for precise color matching"
    ELSE ""

\* recipesWithDescriptions
WithDescriptions(rs) ==
    [n \in 1..Len(rs) |->
        IF rs[n].description # "" THEN rs[n]
        ELSE [rs[n] EXCEPT !.description = DescriptionOf(rs[n])]]

\* description?.includes('Chromatic black')
IsChromatic(recipe) ==
    recipe.description \in
        {"Chromatic black mixture (richer, more natural darks)",
         "Chromatic black mixture with value adjustment"}

\* a last sort by match percentage alone
SortByMatchOnly(rs) ==
    StableSort(rs, [n \in 1..Len(rs) |-> -rs[n].matchPercentage])

\* the comparator of the last sort: chromatic blacks first, then by match
\* percentage, highest first
SortChromaticFirst(rs) ==
    StableSort(rs, [n \in 1..Len(rs) |->
        (IF IsChromatic(rs[n]) THEN 0 ELSE 20000) - rs[n].matchPercentage])

\* Limit to top 5 recipes
MixReturnLimit == 5

\* the sorted recipes without the limit
AllSortedRecipes(rs) == SortChromaticFirst(WithDescriptions(rs))

\* sortedRecipes.slice(0, 5)
FinalSortedRecipes(rs) == Slice(SortChromaticFirst(WithDescriptions(rs)), MixReturnLimit)

----------------------------------------------------------------------------
(* Inputs *)

\* catalogs: the paints of the database and the custom white, in database
\* order, at most MaxCatalog of them; and each of them with the custom black
Catalogs ==
    {SetToSeq(S) : S \in {T \in SUBSET (1..(NumPaints - 1)) :
                              Cardinality(T) <= MaxCatalog}}
        \cup {<<p, NumPaints>> : p \in 1..(NumPaints - 1)}

\* target colours: a paint's own colour, a light tint, a dark neutral,
\* a dark blue-brown, a mid red, a dark blue
Targets ==
    {Lab(5490, 7010, 5120), Lab(9000, 0, 300), Lab(2000, 200, -300),
     Lab(3900, 1200, -1000), Lab(5000, 4000, 4000), Lab(2600, 800, -3400)}

----------------------------------------------------------------------------
(* The two entry points, block by block *)

\* no image analysis is under way
ClusteringIdle ==
    /\ clusterPc = "idle"
    /\ colors = <<>>
    /\ clusterK = 0
    /\ centroids = <<>>
    /\ clusters = <<>>
    /\ hasChanged = FALSE
    /\ iterations = 0
    /\ colorClusters = <<>>
    /\ swatches = <<>>

\* no helper call is under way
HelpersIdle ==
    /\ callPc = "idle"
    /\ callArgs = <<>>
    /\ callResult = <<>>

\* no estimator call is under way
EstimationIdle ==
    /\ estPc = "idle"
    /\ estPaints = <<>>
    /\ estRatios = <<>>
    /\ estAverage = undefined
    /\ estFactor = 0
    /\ estColor = undefined

Init ==
    /\ EstimationIdle
    /\ ClusteringIdle
    /\ HelpersIdle
    /\ missing \in SUBSET {"target", "catalog"}
    /\ target \in IF "target" \in missing THEN {Lab(0, 0, 0)} ELSE Targets
    /\ catalog \in IF "catalog" \in missing THEN {<<>>} ELSE Catalogs
    /\ pc = "idle"
    /\ fn = "none"
    /\ maxComponents = MAX_COMPONENTS
    /\ recipes = <<>>
    /\ result = <<>>
    /\ ran = {}
    /\ binaryMixes = <<>>
    /\ uniqueRecipes = <<>>
    /\ recipesState = <<>>
    /\ paintCount = 0
    /\ hasWhitePaint = FALSE
    /\ hasBlackPaint = FALSE
    /\ loopIndex = 0
    /\ attempts = 0
    /\ evaluated = 0

\* a call findOptimalPaintMixture(target, catalog, mc)
OptCall(mc) ==
    /\ pc = "idle"
    /\ pc' = "opt_guard"
    /\ fn' = "optimal"
    /\ maxComponents' = mc
    /\ UNCHANGED <<inputs, analysis, counters, recipes, result, ran, binaryMixes, uniqueRecipes,
                   recipesState>>

\* a guard that tests the length of the catalog only
EmptyCatalogOnly == Len(catalog) = 0

\* !targetLabColor || !availablePaints || availablePaints.length === 0
InvalidArguments ==
    "target" \in missing \/ "catalog" \in missing \/ Len(catalog) = 0

\* if (!targetLabColor || !availablePaints || availablePaints.length === 0)
\*   return []
OptGuard ==
    /\ pc = "opt_guard"
    /\ IF InvalidArguments
       THEN pc' = "done" /\ result' = <<>>
       ELSE pc' = "opt_single" /\ UNCHANGED result
    /\ UNCHANGED <<inputs, analysis, counters, fn, maxComponents, recipes, ran, binaryMixes,
                   uniqueRecipes, recipesState>>

\* 1. direct matches, then the perfect-match return
OptSingle ==
    /\ pc = "opt_single"
    /\ LET singlePaintMatches == findSinglePaintMatches(target, catalog)
       IN  /\ recipes' = singlePaintMatches
           /\ ran' = ran \cup {"single"}
           /\ IF PerfectMatchFound(singlePaintMatches)
              THEN pc' = "done" /\ result' = TopRecipes(singlePaintMatches)
              ELSE pc' = "opt_binary" /\ UNCHANGED result
    /\ UNCHANGED <<inputs, analysis, counters, fn, maxComponents, binaryMixes, uniqueRecipes,
                   recipesState>>

\* 2. binary mixes, when maxComponents >= 2
OptBinary ==
    /\ pc = "opt_binary"
    /\ pc' = "opt_ternary"
    /\ IF maxComponents >= 2
       THEN LET found == findBinaryMixes(target, catalog)
            IN  /\ recipes' = recipes \o found
                /\ binaryMixes' = found
                /\ ran' = ran \cup {"binary"}
       ELSE UNCHANGED <<recipes, binaryMixes, ran>>
    /\ UNCHANGED <<inputs, analysis, counters, fn, maxComponents, result, uniqueRecipes, recipesState>>

\* 3. ternary mixes, when maxComponents >= 3 and they are needed
OptTernary ==
    /\ pc = "opt_ternary"
    /\ pc' = "opt_rank"
    /\ IF maxComponents >= 3 /\ TernaryNeeded(recipes)
       THEN /\ recipes' = recipes \o findTernaryMixes(target, catalog)
            /\ ran' = ran \cup {"ternary"}
       ELSE UNCHANGED <<recipes, ran>>
    /\ UNCHANGED <<inputs, analysis, counters, fn, maxComponents, result, binaryMixes, uniqueRecipes,
                   recipesState>>

\* sort, remove duplicates, return the top 5
OptRank ==
    /\ pc = "opt_rank"
    /\ pc' = "done"
    /\ result' = TopRecipes(removeRedundantRecipes(SortByMatch(recipes)))
    /\ UNCHANGED <<inputs, analysis, counters, fn, maxComponents, recipes, ran, binaryMixes,
                   uniqueRecipes, recipesState>>

\* a call findPaintMixtures(target) with getAllPaints() = catalog;
\* getAllPaints always returns an array
MixCall ==
    /\ pc = "idle"
    /\ "catalog" \notin missing
    /\ pc' = "mix_guard"
    /\ fn' = "mixtures"
    /\ UNCHANGED <<inputs, analysis, counters, maxComponents, recipes, result, ran, binaryMixes,
                   uniqueRecipes, recipesState>>

\* no available paints, or none with LAB values: the fallback recipe
MixGuard ==
    /\ pc = "mix_guard"
    /\ IF Len(catalog) = 0 \/ Len(PaintsWithLab(catalog)) = 0
       THEN /\ pc' = "done"
            /\ recipesState' = <<fallbackRecipe>>
            /\ result' = <<fallbackRecipe>>
       ELSE /\ pc' = "mix_single"
            /\ UNCHANGED <<recipesState, result>>
    /\ UNCHANGED <<inputs, analysis, counters, fn, maxComponents, recipes, ran, binaryMixes,
                   uniqueRecipes>>

\* 1. best single-paint matches.  Reading targetColor.L of a missing
\* target throws in the sort of sortedPaints or in getColorTemperature; the
\* catch block sets and returns its fallback recipe
MixSingle ==
    /\ pc = "mix_single"
    /\ IF "target" \in missing
       THEN /\ pc' = "done"
            /\ recipesState' = <<fallbackRecipe>>
            /\ result' = <<fallbackRecipe>>
            /\ UNCHANGED recipes
       ELSE /\ pc' = "mix_brands"
            /\ recipes' = MixSingleMatches(target, catalog)
            /\ UNCHANGED <<recipesState, result>>
    /\ UNCHANGED <<inputs, analysis, counters, fn, maxComponents, ran, binaryMixes,
                   uniqueRecipes>>

\* 2. the mixes of every brand
MixBrands ==
    /\ pc = "mix_brands"
    /\ pc' = "mix_unique"
    /\ recipes' = recipes \o BrandRecipes(target, catalog)
    /\ UNCHANGED <<inputs, analysis, counters, fn, maxComponents, result, ran, binaryMixes,
                   uniqueRecipes, recipesState>>

\* sort, remove duplicates, keep five, ensure at least one recipe
MixUnique ==
    /\ pc = "mix_unique"
    /\ pc' = "mix_extra"
    /\ recipes' = SortByMatch(recipes)
    /\ uniqueRecipes' = UniqueRecipes(target, catalog, recipes)
    /\ UNCHANGED <<inputs, analysis, counters, fn, maxComponents, result, ran, binaryMixes,
                   recipesState>>

\* the direct-match and chromatic-black recipes of a dark target
MixExtra ==
    /\ pc = "mix_extra"
    /\ pc' = "mix_rank"
    /\ uniqueRecipes' = WithExtraRecipes(target, catalog, uniqueRecipes)
    /\ UNCHANGED <<inputs, analysis, counters, fn, maxComponents, recipes, result, ran, binaryMixes,
                   recipesState>>

\* descriptions, the last sort, the top 5, setRecipes, return
MixRank ==
    /\ pc = "mix_rank"
    /\ pc' = "done"
    /\ result' = FinalSortedRecipes(uniqueRecipes)
    /\ recipesState' = FinalSortedRecipes(uniqueRecipes)
    /\ UNCHANGED <<inputs, analysis, counters, fn, maxComponents, recipes, ran, binaryMixes,
                   uniqueRecipes>>

Next ==
    \/ \E mc \in 1..MAX_COMPONENTS : OptCall(mc)
    \/ OptGuard
    \/ OptSingle
    \/ OptBinary
    \/ OptTernary
    \/ OptRank
    \/ MixCall
    \/ MixGuard
    \/ MixSingle
    \/ MixBrands
    \/ MixUnique
    \/ MixExtra
    \/ MixRank

Spec == Init /\ [][Next]_vars

----------------------------------------------------------------------------
(* The loop counters of findOptimalPaintMixture on a large catalog.

   The candidates themselves do not matter for the count, so a catalog is
   its length and whether it holds a white and a black paint; every paint
   has a LAB value.  The two score tests of findOptimalPaintMixture depend
   on the candidates and are left open. *)

\* the largest catalog
MaxPaints == 150

\* how many catalog sizes below MaxPaints are tried
PaintCountSpread == 3

RECURSIVE BudgetPairLoop(_, _, _)
\* for (j = i + 1; j < length && attempts < MAX_ATTEMPTS; j++), nine
\* ratios each
BudgetPairLoop(n, j, att) ==
    IF j > n \/ att >= MAX_ATTEMPTS THEN att
    ELSE BudgetPairLoop(n, j + 1, att + Len(RatioLadder))

\* the body of the outer loop of findBinaryMixes for paint1 = paints[i]
BudgetBinaryIteration(n, i, att, white, black) ==
    LET afterPairs == BudgetPairLoop(n, i + 1, att)
        afterWhite == IF white THEN afterPairs + Len(RatioLadder) ELSE afterPairs
    IN  IF black THEN afterWhite + Len(BlackLadder) ELSE afterWhite

RECURSIVE BudgetLoopK(_, _, _)
\* for (k = j + 1; k < length && attempts < MAX_ATTEMPTS; k++), five
\* ratio sets each
BudgetLoopK(m, k, att) ==
    IF k > m \/ att >= MAX_ATTEMPTS THEN att
    ELSE BudgetLoopK(m, k + 1, att + Len(TernaryRatioSets))

RECURSIVE BudgetLoopJ(_, _, _)
\* for (j = i + 1; j < length && attempts < MAX_ATTEMPTS; j++)
BudgetLoopJ(m, j, att) ==
    IF j > m \/ att >= MAX_ATTEMPTS THEN att
    ELSE BudgetLoopJ(m, j + 1, BudgetLoopK(m, j + 1, att))

RECURSIVE BudgetWhiteTintLoop(_, _, _, _)
\* for (j = 0; j < length && j !== i && attempts < MAX_ATTEMPTS; j++),
\* three ratio sets each
BudgetWhiteTintLoop(m, i, j, att) ==
    IF j > m \/ j = i \/ att >= MAX_ATTEMPTS THEN att
    ELSE BudgetWhiteTintLoop(m, i, j + 1, att + Len(WhiteTintRatioSets))

\* the body of the outer loop of findTernaryMixes for paint1 = closest[i]
BudgetTernaryIteration(m, i, att, white) ==
    LET afterTriples == BudgetLoopJ(m, i + 1, att)
    IN  IF white THEN BudgetWhiteTintLoop(m, i, 1, afterTriples)
        ELSE afterTriples

\* closestPaints.length: the closest 10 paints
ClosestCount(n) == Min(n, 10)

InitBudget ==
    /\ EstimationIdle
    /\ ClusteringIdle
    /\ HelpersIdle
    /\ target = Lab(5000, 4000, 4000)
    /\ catalog = <<>>
    /\ missing = {}
    /\ pc = "count_single"
    /\ fn = "optimal"
    /\ maxComponents = MAX_COMPONENTS
    /\ recipes = <<>>
    /\ result = <<>>
    /\ ran = {}
    /\ binaryMixes = <<>>
    /\ uniqueRecipes = <<>>
    /\ recipesState = <<>>
    /\ paintCount \in (MaxPaints - PaintCountSpread)..MaxPaints
    /\ hasWhitePaint \in BOOLEAN
    /\ hasBlackPaint \in BOOLEAN
    /\ loopIndex = 0
    /\ attempts = 0
    /\ evaluated = 0

\* findSinglePaintMatches evaluates every paint; then the perfect-match test
CountSingle ==
    /\ pc = "count_single"
    /\ evaluated' = evaluated + paintCount
    /\ ran' = ran \cup {"single"}
    /\ \E perfect \in BOOLEAN :
          pc' = IF perfect THEN "count_done" ELSE "count_binary"
    /\ loopIndex' = 1
    /\ attempts' = 0
    /\ UNCHANGED <<inputs, analysis, fn, maxComponents, recipes, result, binaryMixes,
                   uniqueRecipes, recipesState, paintCount, hasWhitePaint,
                   hasBlackPaint>>

\* one iteration of the outer loop of findBinaryMixes
CountBinaryIteration ==
    /\ pc = "count_binary"
    /\ loopIndex <= paintCount /\ attempts < MAX_ATTEMPTS
    /\ LET after == BudgetBinaryIteration(paintCount, loopIndex, attempts,
                                          hasWhitePaint, hasBlackPaint)
       IN  /\ attempts' = after
           /\ evaluated' = evaluated + (after - attempts)
    /\ loopIndex' = loopIndex + 1
    /\ ran' = ran \cup {"binary"}
    /\ UNCHANGED <<inputs, analysis, pc, fn, maxComponents, recipes, result, binaryMixes,
                   uniqueRecipes, recipesState, paintCount, hasWhitePaint,
                   hasBlackPaint>>

\* the outer loop of findBinaryMixes ends; then the test for the ternary pass
CountBinaryEnd ==
    /\ pc = "count_binary"
    /\ ~(loopIndex <= paintCount /\ attempts < MAX_ATTEMPTS)
    /\ \E needed \in BOOLEAN :
          pc' = IF needed THEN "count_ternary" ELSE "count_done"
    /\ loopIndex' = 1
    /\ attempts' = 0
    /\ UNCHANGED <<inputs, analysis, built, paintCount, hasWhitePaint, hasBlackPaint,
                   evaluated>>

\* one iteration of the outer loop of findTernaryMixes
CountTernaryIteration ==
    /\ pc = "count_ternary"
    /\ loopIndex <= ClosestCount(paintCount) /\ attempts < MAX_ATTEMPTS
    /\ LET after == BudgetTernaryIteration(ClosestCount(paintCount), loopIndex,
                                           attempts, hasWhitePaint)
       IN  /\ attempts' = after
           /\ evaluated' = evaluated + (after - attempts)
    /\ loopIndex' = loopIndex + 1
    /\ ran' = ran \cup {"ternary"}
    /\ UNCHANGED <<inputs, analysis, pc, fn, maxComponents, recipes, result, binaryMixes,
                   uniqueRecipes, recipesState, paintCount, hasWhitePaint,
                   hasBlackPaint>>

\* the outer loop of findTernaryMixes ends
CountTernaryEnd ==
    /\ pc = "count_ternary"
    /\ ~(loopIndex <= ClosestCount(paintCount) /\ attempts < MAX_ATTEMPTS)
    /\ pc' = "count_done"
    /\ UNCHANGED <<inputs, analysis, built, counters>>

NextBudget ==
    \/ CountSingle
    \/ CountBinaryIteration
    \/ CountBinaryEnd
    \/ CountTernaryIteration
    \/ CountTernaryEnd

SpecBudget == InitBudget /\ [][NextBudget]_vars

----------------------------------------------------------------------------
(* The two mixture estimators, called on their own *)

\* the ratios findBinaryMixes can pass: the ladder values and the two
\* ends of the clamp of adjustRatioForTintingStrength
EstimateRatios == {0, 1000} \cup {RatioLadder[i] : i \in 1..Len(RatioLadder)}

\* the ratio sets of the two loops of findTernaryMixes
EstimateRatioSets ==
    {TernaryRatioSets[i] : i \in 1..Len(TernaryRatioSets)}
        \cup {WhiteTintRatioSets[i] : i \in 1..Len(WhiteTintRatioSets)}

\* no search is under way
SearchIdle ==
    /\ target = Lab(0, 0, 0)
    /\ catalog = <<>>
    /\ missing = {}
    /\ pc = "idle"
    /\ fn = "none"
    /\ maxComponents = MAX_COMPONENTS
    /\ recipes = <<>>
    /\ result = <<>>
    /\ ran = {}
    /\ binaryMixes = <<>>
    /\ uniqueRecipes = <<>>
    /\ recipesState = <<>>
    /\ paintCount = 0
    /\ hasWhitePaint = FALSE
    /\ hasBlackPaint = FALSE
    /\ loopIndex = 0
    /\ attempts = 0
    /\ evaluated = 0

\* the arguments of a call: two paints and a ratio, or three paints and
\* a ratio set
InitEstimate ==
    /\ SearchIdle
    /\ ClusteringIdle
    /\ HelpersIdle
    /\ estPc = "called"
    /\ \/ /\ estPaints \in [1..2 -> DOMAIN paintDatabase]
          /\ estRatios \in {<<r>> : r \in EstimateRatios}
       \/ /\ estPaints \in [1..3 -> DOMAIN paintDatabase]
          /\ estRatios \in EstimateRatioSets
    /\ estAverage = undefined
    /\ estFactor = 0
    /\ estColor = undefined

\* estimateMixedColor(paint1, paint2, ratio)
EstimateBinary ==
    /\ estPc = "called"
    /\ Len(estPaints) = 2
    /\ estPc' = "done"
    /\ estColor' = estimateMixedColor(estPaints[1], estPaints[2], estRatios[1])
    /\ IF HasLab(estPaints[1]) /\ HasLab(estPaints[2])
       THEN /\ estAverage' =
                  BinaryMixedLab(estPaints[1], estPaints[2], estRatios[1])
            /\ estFactor' = BinaryDullingFactor(estPaints[1], estPaints[2])
       ELSE UNCHANGED <<estAverage, estFactor>>
    /\ UNCHANGED <<inputs, counters, pc, built, estPaints, estRatios, clustering,
                 helpers>>

\* estimateTernaryMixedColor(paint1, paint2, paint3, ratio1, ratio2, ratio3)
EstimateTernary ==
    /\ estPc = "called"
    /\ Len(estPaints) = 3
    /\ estPc' = "done"
    /\ estColor' = estimateTernaryMixedColor(estPaints[1], estPaints[2],
                       estPaints[3], estRatios[1], estRatios[2], estRatios[3])
    /\ IF HasLab(estPaints[1]) /\ HasLab(estPaints[2]) /\ HasLab(estPaints[3])
       THEN /\ estAverage' =
                  TernaryMixedLab(estPaints[1], estPaints[2], estPaints[3],
                                  estRatios[1], estRatios[2], estRatios[3])
            /\ estFactor' = TernaryDullingFactor(estPaints[1], estPaints[2],
                                                 estPaints[3])
       ELSE UNCHANGED <<estAverage, estFactor>>
    /\ UNCHANGED <<inputs, counters, pc, built, estPaints, estRatios, clustering,
                 helpers>>

NextEstimate ==
    \/ EstimateBinary
    \/ EstimateTernary

SpecEstimate == InitEstimate /\ [][NextEstimate]_vars

----------------------------------------------------------------------------
(* imageAnalysis.ts: extractDominantColors from its sampled colours on *)

\* largest number of sampled colours
MaxSamples == 3

\* largest k
MaxK == 2

\* const MAX_ITERATIONS = 10
MAX_ITERATIONS == 10

\* a loop that runs up to the cap whether or not an assignment changed
RunsToCap(changed, n) == n < MAX_ITERATIONS

\* while (hasChanged && iterations < MAX_ITERATIONS)
LoopContinues(changed, n) == changed /\ n < MAX_ITERATIONS

\* an RGB colour
Rgb(r, g, b) == [r |-> r, g |-> g, b |-> b]

\* the colours a sample is drawn from
SamplePalette ==
    {Rgb(0, 0, 0), Rgb(1, 0, 0), Rgb(10, 20, 255), Rgb(255, 255, 255)}

\* the sample lists: every list of at most MaxSamples palette colours
SampleLists ==
    UNION {[1..n -> SamplePalette] : n \in 0..MaxSamples}

\* the square of colorDistance; clusterColors only compares distances, and
\* the square root keeps the order of these integers
colorDistance(x, y) ==
    (x.r - y.r) * (x.r - y.r) + (x.g - y.g) * (x.g - y.g)
        + (x.b - y.b) * (x.b - y.b)

\* the inner j loop: the first centroid at the smallest distance
NearestCentroid(color, cs) ==
    CHOOSE j \in 1..Len(cs) :
        /\ \A i \in 1..Len(cs) :
              colorDistance(color, cs[j]) <= colorDistance(color, cs[i])
        /\ \A i \in 1..(j - 1) :
              colorDistance(color, cs[i]) > colorDistance(color, cs[j])

RECURSIVE SumSeq(_)
SumSeq(q) == IF Len(q) = 0 THEN 0 ELSE Head(q) + SumSeq(Tail(q))

\* a division that drops the fraction
Truncate(sum, count) == sum \div count

\* Math.round(sum / count), sum >= 0: halves go up
Round(sum, count) == (2 * sum + count) \div (2 * count)

\* counts[j]: the number of colours assigned to cluster j
MembersOf(assigned, j) ==
    Cardinality({i \in 1..Len(assigned) : assigned[i] = j})

\* the first member of cluster j in place of the mean of its members
FirstMemberOf(cols, assigned, j) ==
    cols[CHOOSE i \in 1..Len(cols) :
            assigned[i] = j /\ \A h \in 1..(i - 1) : assigned[h] # j]

\* newCentroids[j] when counts[j] > 0: the rounded mean of the members
MeanOf(cols, assigned, j) ==
    LET members == SelectSeq([i \in 1..Len(cols) |->
                                 [color |-> cols[i], cluster |-> assigned[i]]],
                             LAMBDA m : m.cluster = j)
        count == Len(members)
    IN  Rgb(Round(SumSeq([i \in 1..count |-> members[i].color.r]), count),
            Round(SumSeq([i \in 1..count |-> members[i].color.g]), count),
            Round(SumSeq([i \in 1..count |-> members[i].color.b]), count))

\* the list with its empty clusters left in
AllClusters(list) == list

\* .filter(cluster => cluster.count > 0)
NonEmptyClusters(list) == SelectSeq(list, LAMBDA c : c.count > 0)

InitCluster ==
    /\ SearchIdle
    /\ EstimationIdle
    /\ HelpersIdle
    /\ clusterPc = "called"
    /\ colors \in SampleLists
    /\ clusterK \in 1..MaxK
    /\ centroids = <<>>
    /\ clusters = <<>>
    /\ hasChanged = FALSE
    /\ iterations = 0
    /\ colorClusters = <<>>
    /\ swatches = <<>>

\* if (colors.length === 0) return []
ClusterGuard ==
    /\ clusterPc = "called"
    /\ IF Len(colors) = 0
       THEN clusterPc' = "clustered" /\ colorClusters' = <<>>
       ELSE clusterPc' = "init" /\ UNCHANGED colorClusters
    /\ UNCHANGED <<inputs, helpers, estimation, counters, pc, built, colors, clusterK,
                   centroids, clusters, hasChanged, iterations, swatches>>

\* k centroids drawn at random from the colours; every assignment starts
\* at cluster 0
ClusterInit ==
    /\ clusterPc = "init"
    /\ clusterPc' = "loop"
    /\ \E pick \in [1..clusterK -> 1..Len(colors)] :
          centroids' = [j \in 1..clusterK |-> colors[pick[j]]]
    /\ clusters' = [i \in 1..Len(colors) |-> 1]
    /\ hasChanged' = TRUE
    /\ iterations' = 0
    /\ UNCHANGED <<inputs, helpers, estimation, counters, pc, built, colors, clusterK,
                   colorClusters, swatches>>

\* one pass of while (hasChanged && iterations < MAX_ITERATIONS): assign
\* every colour, then recalculate the centroids; a centroid without
\* members becomes a random colour
ClusterIterate ==
    /\ clusterPc = "loop"
    /\ LoopContinues(hasChanged, iterations)
    /\ LET assigned == [i \in 1..Len(colors) |->
                           NearestCentroid(colors[i], centroids)]
       IN  /\ hasChanged' = (assigned # clusters)
           /\ clusters' = assigned
           /\ LET empty == {j \in 1..clusterK : MembersOf(assigned, j) = 0}
                  means == [j \in (1..clusterK) \ empty |->
                               MeanOf(colors, assigned, j)]
              IN  \E pick \in [empty -> 1..Len(colors)] :
                     centroids' = [j \in 1..clusterK |->
                         IF j \in empty THEN colors[pick[j]] ELSE means[j]]
    /\ iterations' = iterations + 1
    /\ UNCHANGED <<inputs, helpers, estimation, counters, pc, built, clusterPc, colors,
                   clusterK, colorClusters, swatches>>

\* the loop is left; the clusters are counted and the empty ones dropped
ClusterReturn ==
    /\ clusterPc = "loop"
    /\ ~LoopContinues(hasChanged, iterations)
    /\ clusterPc' = "clustered"
    /\ colorClusters' =
          NonEmptyClusters([j \in 1..clusterK |->
              [centroid |-> centroids[j], count |-> MembersOf(clusters, j)]])
    /\ UNCHANGED <<inputs, helpers, estimation, counters, pc, built, colors, clusterK,
                   centroids, clusters, hasChanged, iterations, swatches>>

\* extractDominantColors: the clusters as swatches, largest share first.
\* percentage is (count / colors.length) * 100, kept as the fraction
\* num / den; the lab and hex fields are left out
ExtractSwatches ==
    /\ clusterPc = "clustered"
    /\ clusterPc' = "done"
    /\ swatches' =
          LET mapped == [n \in 1..Len(colorClusters) |->
                            [rgb |-> colorClusters[n].centroid,
                             percentage |->
                                 [num |-> colorClusters[n].count * 100,
                                  den |-> Len(colors)]]]
          IN  StableSort(mapped,
                  [n \in 1..Len(mapped) |-> -mapped[n].percentage.num])
    /\ UNCHANGED <<inputs, helpers, estimation, counters, pc, built, colors, clusterK,
                   centroids, clusters, hasChanged, iterations, colorClusters>>

NextCluster ==
    \/ ClusterGuard
    \/ ClusterInit
    \/ ClusterIterate
    \/ ClusterReturn
    \/ ExtractSwatches

SpecCluster == InitCluster /\ [][NextCluster]_vars

\* the call runs to its end: nothing suspends the synchronous loops
SpecClusterFair == SpecCluster /\ WF_vars(NextCluster)

----------------------------------------------------------------------------
(* Properties of the two entry points *)

\* the call of entry point f has returned
Returned(f) == pc = "done" /\ fn = f

\* the set of paint ids of a recipe, proportions ignored
IdSet(recipe) == {recipe.paints[i].paint : i \in 1..Len(recipe.paints)}

\* the recipe is described as a chromatic black
DescribedChromaticBlack(recipe) ==
    recipe.description \in
        {"Chromatic black mixture (richer, more natural darks)",
         "Chromatic black mixture with value adjustment"}

\* the best score of a single paint of the catalog, -1 when no paint of
\* the catalog has a LAB value
BestSingleScore ==
    LET withLab == {catalog[i] : i \in {n \in 1..Len(catalog) :
                                            paintDatabase[catalog[n]].hasLab}}
        scores == {deltaEToPercentage(calculateDeltaE(target, PaintLab(p)))
                     : p \in withLab}
    IN  IF scores = {} THEN -1
        ELSE CHOOSE m \in scores : \A x \in scores : x <= m

\* C1: the list returned by findOptimalPaintMixture never holds two recipes
\* with the same set of paint ids, on any return path.
OptimalDistinctPaintSets ==
    Returned("optimal") =>
        \A i, j \in 1..Len(result) :
            i # j => IdSet(result[i]) # IdSet(result[j])

OptimalRankedFewerFirst ==
    Returned("optimal") =>
        \A i, j \in 1..Len(result) :
            i < j =>
                /\ result[i].matchPercentage >= result[j].matchPercentage
                /\ result[i].matchPercentage = result[j].matchPercentage
                      => Len(result[i].paints) <= Len(result[j].paints)

\* findOptimalPaintMixture returned two recipes of equal score and
\* different numbers of components
OptimalTieReturned ==
    /\ Returned("optimal")
    /\ \E i, j \in 1..Len(result) :
          /\ i < j
          /\ result[i].matchPercentage = result[j].matchPercentage
          /\ Len(result[i].paints) < Len(result[j].paints)

AtMostFiveReturned ==
    pc = "done" => Len(result) <= 5

\* findPaintMixtures held more than five recipes after appending the extra
\* ones to five unique recipes, and returned five
MixturesExtrasCutToFive ==
    /\ Returned("mixtures")
    /\ isDarkColor(target)
    /\ Len(uniqueRecipes) > 5
    /\ Len(result) = 5

ScoresFollowOneFormula ==
    pc = "done" =>
        \A n \in 1..Len(result) :
            result[n].estimatedLabColor # undefined =>
                result[n].matchPercentage =
                    deltaEToPercentage(
                        calculateDeltaE(target, result[n].estimatedLabColor))

\* C8: findTernaryMixes is invoked only when the best recipe of the binary
\* pass scores below 90.
TernaryOnlyAfterWeakBinary ==
    (fn = "optimal" /\ "ternary" \in ran) =>
        \A n \in 1..Len(binaryMixes) :
            binaryMixes[n].matchPercentage < 9000

\* C9: if the best single paint scores above 98, findOptimalPaintMixture
\* runs neither the binary nor the ternary pass and returns single-paint
\* recipes only; otherwise, with maxComponents >= 2, it runs the binary pass.
PerfectSingleShortCircuits ==
    (Returned("optimal") /\ missing = {} /\ BestSingleScore >= 0) =>
        IF BestSingleScore > 9800
        THEN /\ ran = {"single"}
             /\ \A n \in 1..Len(result) : Len(result[n].paints) = 1
        ELSE maxComponents >= 2 => "binary" \in ran

\* findOptimalPaintMixture returned several single paints after a perfect
\* match, binary mixes being allowed
PerfectSingleReturned ==
    /\ Returned("optimal")
    /\ missing = {}
    /\ maxComponents >= 2
    /\ BestSingleScore > 9800
    /\ Len(result) > 1

\* C10: during one call of findOptimalPaintMixture the candidates evaluated
\* by the single, binary and ternary passes together never exceed
\* MAX_ATTEMPTS.
BudgetNeverExceeded ==
    evaluated <= MAX_ATTEMPTS

\* C11: findOptimalPaintMixture returns an empty list, and runs none of its
\* passes, whenever the target or the catalog is null or undefined or the
\* catalog is empty.
OptimalEmptyOnMissingInput ==
    (Returned("optimal")
        /\ (missing # {} \/ Len(catalog) = 0)) =>
        /\ result = <<>>
        /\ ran = {}

\* findOptimalPaintMixture returned from a call without a target on a
\* catalog that holds paints
OptimalReturnedWithoutTarget ==
    /\ Returned("optimal")
    /\ missing = {"target"}
    /\ Len(catalog) > 0
    /\ result = <<>>

\* C12: with a target, findOptimalPaintMixture returns at least one recipe
\* for every non-empty catalog, whatever the attributes of its paints.
OptimalNonEmptyForCatalog ==
    (Returned("optimal") /\ missing = {} /\ Len(catalog) > 0) =>
        Len(result) >= 1

\* the list holds the fallback recipe and nothing else: the paint
\* "error-fallback" alone, at proportion 1, with matchPercentage 50
OnlyFallback(list) ==
    /\ Len(list) = 1
    /\ Len(list[1].paints) = 1
    /\ list[1].paints[1].paint = 0
    /\ list[1].paints[1].proportion = 1000
    /\ list[1].matchPercentage = 5000

\* C13 as stated: with an empty catalog findPaintMixtures returns no recipe
\* and sets the recipes state to the empty list.
MixturesEmptyForEmptyCatalog ==
    (Returned("mixtures") /\ Len(catalog) = 0) =>
        /\ result = <<>>
        /\ recipesState = <<>>

\* C13: with an empty catalog findPaintMixtures returns the fallback recipe
\* alone (paint "error-fallback", proportion 1, matchPercentage 50) and sets
\* the recipes state to that list.
MixturesFallbackForEmptyCatalog ==
    (Returned("mixtures") /\ Len(catalog) = 0) =>
        /\ OnlyFallback(result)
        /\ OnlyFallback(recipesState)

\* findPaintMixtures returned from a call with a target and no paints
MixturesReturnedForEmptyCatalog ==
    /\ Returned("mixtures")
    /\ missing = {}
    /\ Len(catalog) = 0
    /\ Len(result) = 1

\* every component of every recipe of the list is a paint with a LAB
\* value (the paint "error-fallback" has one)
AllComponentsHaveLab(list) ==
    \A n \in 1..Len(list) :
        \A k \in 1..Len(list[n].paints) :
            \/ list[n].paints[k].paint = 0
            \/ paintDatabase[list[n].paints[k].paint].hasLab

\* C14: a paint without a LAB value is never a component of a recipe that
\* either entry point builds, keeps or returns, in any pass, so that no
\* default-colour estimate is ever scored.
NoComponentWithoutLab ==
    /\ AllComponentsHaveLab(recipes)
    /\ AllComponentsHaveLab(binaryMixes)
    /\ AllComponentsHaveLab(uniqueRecipes)
    /\ AllComponentsHaveLab(result)

\* findOptimalPaintMixture ran its three passes on a catalog that holds a
\* paint without a LAB value, and returned mixes
OptimalMixedBesideLablessPaint ==
    /\ Returned("optimal")
    /\ ran = {"single", "binary", "ternary"}
    /\ \E i \in 1..Len(catalog) : ~paintDatabase[catalog[i]].hasLab
    /\ \E n \in 1..Len(result) : Len(result[n].paints) >= 2

\* C15: in every recipe returned by findOptimalPaintMixture every
\* component's proportion lies in (0, 1].
OptimalProportionsPositive ==
    Returned("optimal") =>
        \A n \in 1..Len(result) :
            \A k \in 1..Len(result[n].paints) :
                /\ result[n].paints[k].proportion > 0
                /\ result[n].paints[k].proportion <= 1000

\* every candidate pushed by the passes of findOptimalPaintMixture that
\* ran, before any pass sorts and slices its own list
GeneratedCandidates ==
    LET withLab == SelectSeq(catalog, HasLab)
        single  == [i \in 1..Len(withLab) |->
                      Recipe(<<Component(withLab[i], 1000)>>,
                             deltaEToPercentage(
                                 calculateDeltaE(target, PaintLab(withLab[i]))),
                             PaintLab(withLab[i]), "")]
        binary  == BinaryOuterLoop(target, catalog, 1,
                       [matches |-> <<>>, attempts |-> 0]).matches
        ternary == TernaryLoopI(target, ClosestPaints(target, catalog),
                       SelectSeq(catalog, IsWhite), 1,
                       [matches |-> <<>>, attempts |-> 0]).matches
    IN  (IF "single" \in ran THEN single ELSE <<>>)
        \o (IF "binary" \in ran THEN binary ELSE <<>>)
        \o (IF "ternary" \in ran THEN ternary ELSE <<>>)

\* C16: for each set of paint ids in the result of findOptimalPaintMixture
\* the returned recipe is the highest-scoring candidate with that paint set
\* among all candidates generated by the passes that ran.
OptimalKeepsBestOfPaintSet ==
    (Returned("optimal") /\ missing = {}) =>
        LET generated == GeneratedCandidates
        IN  \A n \in 1..Len(result) :
                \A c \in 1..Len(generated) :
                    IdSet(generated[c]) = IdSet(result[n]) =>
                        result[n].matchPercentage >= generated[c].matchPercentage

\* C17: in every two-paint and three-paint estimate the dulling factor is
\* at most 1, the chroma of the estimated colour is at most the chroma of
\* the weighted LAB average, a and b are scaled by that one factor and L
\* is the L of the weighted average.
EstimateNeverBrighter ==
    (estPc = "done" /\ \A i \in 1..Len(estPaints) : HasLab(estPaints[i])) =>
        /\ estFactor <= 10000
        /\ calculateChroma(estColor) <= calculateChroma(estAverage)
        /\ estColor.a = (estAverage.a * estFactor) \div 10000
        /\ estColor.b = (estAverage.b * estFactor) \div 10000
        /\ estColor.L = estAverage.L

\* estimateTernaryMixedColor returned a colour duller than the weighted
\* average of three paints
TernaryEstimateDulled ==
    /\ estPc = "done"
    /\ Len(estPaints) = 3
    /\ \A i \in 1..3 : HasLab(estPaints[i])
    /\ estFactor < 10000
    /\ calculateChroma(estColor) < calculateChroma(estAverage)

\* the catalog holds, with LAB values, a blue-family paint (ultramarine or
\* phthalo) and an earth or red-family paint (umber or crimson)
CatalogHasChromaticPair ==
    /\ \E i \in 1..Len(catalog) :
          /\ HasLab(catalog[i])
          /\ (NameIncludes(catalog[i], <<"ultramarine">>)
                 \/ NameIncludes(catalog[i], <<"phthalo">>))
    /\ \E i \in 1..Len(catalog) :
          /\ HasLab(catalog[i])
          /\ (NameIncludes(catalog[i], <<"umber">>)
                 \/ NameIncludes(catalog[i], <<"crimson">>))

\* the recipe pairs two paints that are neither a white nor a black
ChromaticBlackPairing(recipe) ==
    /\ Len(recipe.paints) = 2
    /\ \A i \in 1..2 :
          /\ ~NameIncludes(recipe.paints[i].paint, <<"white">>)
          /\ ~NameIncludes(recipe.paints[i].paint, <<"black">>)

\* C18: for a dark target (L < 40) and a catalog with a blue-family and an
\* earth or red-family paint, the list findPaintMixtures returns holds a
\* recipe that pairs two paints neither of which is a white or a black.
MixturesKeepChromaticBlack ==
    (Returned("mixtures") /\ missing = {} /\ isDarkColor(target)
        /\ CatalogHasChromaticPair) =>
            \E n \in 1..Len(result) : ChromaticBlackPairing(result[n])

----------------------------------------------------------------------------
(* Properties of the image analysis *)

\* clusterColors has returned
Clustered == clusterPc \in {"clustered", "done"}

\* c is sum / count rounded to the nearest integer
NearestInteger(c, sum, count) ==
    /\ 2 * (c * count - sum) <= count
    /\ 2 * (sum - c * count) <= count

\* C19: with k = 1 and a non-empty sample set clusterColors returns exactly
\* one cluster, whose centroid is the per-channel mean of all samples
\* rounded to the nearest integer and whose count is the number of samples,
\* whatever centroid was drawn first.
SingleClusterIsMean ==
    (Clustered /\ clusterK = 1 /\ Len(colors) > 0) =>
        /\ Len(colorClusters) = 1
        /\ colorClusters[1].count = Len(colors)
        /\ NearestInteger(colorClusters[1].centroid.r,
               SumSeq([i \in 1..Len(colors) |-> colors[i].r]), Len(colors))
        /\ NearestInteger(colorClusters[1].centroid.g,
               SumSeq([i \in 1..Len(colors) |-> colors[i].g]), Len(colors))
        /\ NearestInteger(colorClusters[1].centroid.b,
               SumSeq([i \in 1..Len(colors) |-> colors[i].b]), Len(colors))

\* clusterColors returned with k = 1 from samples whose mean is none of
\* the samples
SingleClusterOfMixedSamples ==
    /\ clusterPc = "done"
    /\ clusterK = 1
    /\ Len(colors) = MaxSamples
    /\ Len(colorClusters) = 1
    /\ \A i \in 1..Len(colors) : colorClusters[1].centroid # colors[i]
    /\ colorClusters[1].centroid.r * Len(colors)
           > SumSeq([i \in 1..Len(colors) |-> colors[i].r])

\* C20: for a non-empty sample set clusterColors returns between 1 and k
\* clusters, each with at least one member, the member counts sum to the
\* number of samples and the percentages of extractDominantColors sum to
\* 100; for an empty sample set it returns the empty list.
ClustersPartitionSamples ==
    Clustered =>
        IF Len(colors) = 0
        THEN colorClusters = <<>> /\ swatches = <<>>
        ELSE /\ Len(colorClusters) >= 1
             /\ Len(colorClusters) <= clusterK
             /\ \A n \in 1..Len(colorClusters) : colorClusters[n].count >= 1
             /\ SumSeq([n \in 1..Len(colorClusters) |->
                           colorClusters[n].count]) = Len(colors)
             /\ clusterPc = "done" =>
                   /\ Len(swatches) = Len(colorClusters)
                   /\ \A n \in 1..Len(swatches) :
                         swatches[n].percentage.den = Len(colors)
                   /\ SumSeq([n \in 1..Len(swatches) |->
                                 swatches[n].percentage.num])
                         = 100 * Len(colors)

\* extractDominantColors returned fewer swatches than k: a cluster ended
\* without members and was dropped
EmptyClusterDropped ==
    /\ clusterPc = "done"
    /\ Len(colors) = MaxSamples
    /\ clusterK = MaxK
    /\ Len(swatches) >= 1
    /\ Len(swatches) < clusterK

----------------------------------------------------------------------------
(* The mixing of one candidate pair, on its own *)

\* the ordered pairs of distinct paints of one brand that carry a lab
BrandPairs ==
    {pr \in (1..NumPaints) \X (1..NumPaints) :
        /\ pr[1] # pr[2]
        /\ HasLab(pr[1]) /\ HasLab(pr[2])
        /\ paintDatabase[pr[1]].brand = paintDatabase[pr[2]].brand}

\* shares of the first paint that place a target between the two paints:
\* inside [0.1, 0.9], near the middle, and outside of it
BracketShares == {50, 300, 450}

\* the targets of a pair: the targets of the searches and colours that lie
\* between two paints
PairTargets ==
    Targets \cup {mixLab(PaintLab(pr[1]), PaintLab(pr[2]), r) :
                     pr \in BrandPairs, r \in BracketShares}

InitPair ==
    /\ SearchIdle
    /\ EstimationIdle
    /\ ClusteringIdle
    /\ callPc = "pair_called"
    /\ callArgs \in {<<t, pr[1], pr[2]>> : t \in PairTargets, pr \in BrandPairs}
    /\ callResult = <<>>

\* the body of the loop over j: the recipes pushed for paint1 and paint2
MixPair ==
    /\ callPc = "pair_called"
    /\ callPc' = "pair_done"
    /\ callResult' = PairRecipes(callArgs[1], callArgs[2], callArgs[3])
    /\ UNCHANGED <<inputs, counters, pc, built, estimation, clustering, callArgs>>

NextPair == MixPair

SpecPair == InitPair /\ [][NextPair]_vars

----------------------------------------------------------------------------
(* findComplementaryPaints, on its own *)

InitComplement ==
    /\ SearchIdle
    /\ EstimationIdle
    /\ ClusteringIdle
    /\ callPc = "complement_called"
    /\ callArgs \in {<<paint, c>> : paint \in 1..NumPaints, c \in Catalogs}
    /\ callResult = <<>>

\* findComplementaryPaints(paint, availablePaints)
Complement ==
    /\ callPc = "complement_called"
    /\ callPc' = "complement_done"
    /\ callResult' = findComplementaryPaints(callArgs[1], callArgs[2])
    /\ UNCHANGED <<inputs, counters, pc, built, estimation, clustering, callArgs>>

NextComplement == Complement

SpecComplement == InitComplement /\ [][NextComplement]_vars

----------------------------------------------------------------------------
(* findTernaryMixes, on its own *)

InitTernary ==
    /\ SearchIdle
    /\ EstimationIdle
    /\ ClusteringIdle
    /\ callPc = "ternary_called"
    /\ callArgs \in {<<t, c>> : t \in Targets, c \in Catalogs}
    /\ callResult = <<>>

\* findTernaryMixes(targetLabColor, availablePaints)
TernaryMix ==
    /\ callPc = "ternary_called"
    /\ callPc' = "ternary_done"
    /\ callResult' = findTernaryMixes(callArgs[1], callArgs[2])
    /\ UNCHANGED <<inputs, counters, pc, built, estimation, clustering, callArgs>>

NextTernary == TernaryMix

SpecTernary == InitTernary /\ [][NextTernary]_vars

----------------------------------------------------------------------------
(* imageAnalysis.ts: the sampling loop of extractDominantColors *)

\* the largest canvas.width and canvas.height of the model
MaxWidth == 3

MaxHeight == 2

\* the largest sampleCount of the model
MaxSampleCount == 6

\* the samples collected before the model leaves a loop that does not
\* advance
MaxCollected == 8

\* imageData.length: four bytes for every pixel
DataLength(width, height) == width * height * 4

\* Math.floor((canvas.width * canvas.height * 4) / sampleCount)
PixelStep(width, height, sampleCount) ==
    DataLength(width, height) \div sampleCount

\* the arguments: the width and height of the image and sampleCount
InitSample ==
    /\ SearchIdle
    /\ EstimationIdle
    /\ ClusteringIdle
    /\ callPc = "sample_called"
    /\ callArgs \in {<<w, h, n>> : w \in 1..MaxWidth, h \in 1..MaxHeight,
                                    n \in 1..MaxSampleCount}
    /\ callResult = <<>>

\* const colors = []; const pixelStep = ...; let i = 0
SampleStart ==
    /\ callPc = "sample_called"
    /\ callPc' = "sample_loop"
    /\ callResult' =
          [pixelStep |-> PixelStep(callArgs[1], callArgs[2], callArgs[3]),
           i |-> 0, collected |-> 0]
    /\ UNCHANGED <<inputs, counters, pc, built, estimation, clustering, callArgs>>

\* one iteration of for (i = 0; i < imageData.length; i += pixelStep);
\* collected is colors.length. A loop that stands still is followed up to
\* MaxCollected samples
SampleStep ==
    /\ callPc = "sample_loop"
    /\ callResult.i < DataLength(callArgs[1], callArgs[2])
    /\ callResult.pixelStep = 0 => callResult.collected < MaxCollected
    /\ callResult' =
          [pixelStep |-> callResult.pixelStep,
           i |-> callResult.i + callResult.pixelStep,
           collected |->
               IF callResult.i + 3 < DataLength(callArgs[1], callArgs[2])
               THEN callResult.collected + 1
               ELSE callResult.collected]
    /\ UNCHANGED <<inputs, counters, pc, built, estimation, clustering, callPc,
                   callArgs>>

\* the loop is left when i reaches imageData.length
SampleEnd ==
    /\ callPc = "sample_loop"
    /\ callResult.i >= DataLength(callArgs[1], callArgs[2])
    /\ callPc' = "sampled"
    /\ UNCHANGED <<inputs, counters, pc, built, estimation, clustering, callArgs,
                   callResult>>

NextSample ==
    \/ SampleStart
    \/ SampleStep
    \/ SampleEnd

SpecSample == InitSample /\ [][NextSample]_vars

\* the loop is synchronous: an iteration that can run does run
SpecSampleFair == SpecSample /\ WF_vars(NextSample)

----------------------------------------------------------------------------
(* Properties of the ratios and the dulling *)

\* clamp(r * (s1 / (s1 + s2)) * 2, 0, 1) for the tinting strengths of the two
\* paints p1 and p2
StrengthAdjusted(r, p1, p2) ==
    LET s1 == tintingStrengthToNumeric(paintDatabase[p1].tintingStrength)
        s2 == tintingStrengthToNumeric(paintDatabase[p2].tintingStrength)
    IN  Max(0, Min(1000, (r * 2 * s1) \div (s1 + s2)))

\* the ratios of the two ladders of the binary pass
LadderRatios ==
    {RatioLadder[k] : k \in 1..Len(RatioLadder)}
        \cup {BlackLadder[k] : k \in 1..Len(BlackLadder)}

\* C21: in every candidate of the binary pass the proportion of the first
\* paint is a ladder ratio adjusted by the tinting strengths of the two
\* paints of the candidate.
BinaryProportionsFollowStrengths ==
    \A n \in 1..Len(binaryMixes) :
        binaryMixes[n].paints[1].proportion \in
            {StrengthAdjusted(r, binaryMixes[n].paints[1].paint,
                              binaryMixes[n].paints[2].paint) :
                r \in LadderRatios}

\* the same for the catalogs of database paints, whose blacks are all of
\* High tinting strength
CatalogWithoutCustomBlack ==
    \A i \in 1..Len(catalog) : catalog[i] # NumPaints

\* the greatest difference between two of the paints handed to the estimator
MaxPairwiseDeltaE ==
    CHOOSE d \in {calculateDeltaE(PaintLab(estPaints[ij[1]]),
                                      PaintLab(estPaints[ij[2]])) :
                          ij \in {x \in (1..Len(estPaints)) \X (1..Len(estPaints)) :
                                    x[1] < x[2]}} :
            \A ij \in {x \in (1..Len(estPaints)) \X (1..Len(estPaints)) :
                          x[1] < x[2]} :
                d >= calculateDeltaE(PaintLab(estPaints[ij[1]]),
                                     PaintLab(estPaints[ij[2]]))

\* the sum of the opacity scores of the paints handed to the estimator
OpacitySum ==
    SumSeq([i \in 1..Len(estPaints) |->
               opacityToNumeric(paintDatabase[estPaints[i]].opacity)])

\* C22: the dulling factor of a mix of N paints is
\* 1 - (maxPairwiseDeltaE / 100) * baseRate * (1 - meanOpacity * 0.5), with
\* baseRate 0.3 for two paints and 0.4 for three.
DullingUsesMeanOpacity ==
    (estPc = "done" /\ \A i \in 1..Len(estPaints) : HasLab(estPaints[i])) =>
        estFactor =
            10000 - (MaxPairwiseDeltaE
                        * (IF Len(estPaints) = 2 THEN 3 ELSE 4)
                        * (8 * Len(estPaints) - OpacitySum))
                    \div (80 * Len(estPaints))

\* the same for the calls with three paints
TernaryDullingUsesMeanOpacity ==
    Len(estPaints) = 3 => DullingUsesMeanOpacity

\* the two paints of the pair call differ by more than 20 in lightness and
\* the target's lightness lies strictly between theirs
PairBracketsTarget ==
    /\ Len(callArgs) = 3
    /\ Abs(PaintLab(callArgs[2]).L - PaintLab(callArgs[3]).L) > 2000
    /\ callArgs[1].L > Min(PaintLab(callArgs[2]).L, PaintLab(callArgs[3]).L)
    /\ callArgs[1].L < Max(PaintLab(callArgs[2]).L, PaintLab(callArgs[3]).L)

\* the share, in thousandths, of the lighter paint that puts the mixture on
\* the target's lightness
PairIdealShare ==
    ((callArgs[1].L - Min(PaintLab(callArgs[2]).L, PaintLab(callArgs[3]).L))
        * 1000)
      \div Abs(PaintLab(callArgs[2]).L - PaintLab(callArgs[3]).L)

\* the share of the lighter paint in a recipe of the pair call
LighterShare(r) ==
    IF PaintLab(callArgs[2]).L > PaintLab(callArgs[3]).L
    THEN r.paints[1].proportion
    ELSE r.paints[2].proportion

\* C23: for a pair that differs by more than 20 in lightness and brackets
\* the target's lightness, paint1's proportion lies in [0.1, 0.9], the
\* lighter paint gets the interpolation share clamped to [0.1, 0.9], and
\* when that share needs no clamping the recipe's estimated L is the
\* target's L (to the thousandth of the ratio), whichever paint is lighter
ValueMixLandsOnTargetLightness ==
    (callPc = "pair_done" /\ PairBracketsTarget) =>
        \A n \in 1..Len(callResult) :
            /\ callResult[n].paints[1].paint = callArgs[2]
            /\ callResult[n].paints[2].paint = callArgs[3]
            /\ callResult[n].paints[1].proportion >= 100
            /\ callResult[n].paints[1].proportion <= 900
            /\ callResult[n].paints[1].proportion
                  + callResult[n].paints[2].proportion = 1000
            /\ LighterShare(callResult[n])
                  = Min(900, Max(100, PairIdealShare))
            /\ (PairIdealShare >= 100 /\ PairIdealShare <= 900) =>
                  Abs(callResult[n].estimatedLabColor.L - callArgs[1].L)
                    <= Abs(PaintLab(callArgs[2]).L - PaintLab(callArgs[3]).L)
                         \div 1000 + 1

\* a pair whose paint2 is the lighter one yields recipes on the target's
\* lightness without any clamping
ValueMixWithLighterSecond ==
    /\ callPc = "pair_done"
    /\ PairBracketsTarget
    /\ PaintLab(callArgs[3]).L > PaintLab(callArgs[2]).L
    /\ PairIdealShare > 100 /\ PairIdealShare < 900
    /\ Len(callResult) = Len(PairRatios)

\* helper cases of C23: the lighter paint first, and a clamped share
ValueMixWithLighterFirst ==
    /\ callPc = "pair_done"
    /\ PairBracketsTarget
    /\ PaintLab(callArgs[2]).L > PaintLab(callArgs[3]).L
    /\ PairIdealShare > 100 /\ PairIdealShare < 900
    /\ Len(callResult) = Len(PairRatios)

ValueMixClamped ==
    /\ callPc = "pair_done"
    /\ PairBracketsTarget
    /\ PairIdealShare < 100
    /\ Len(callResult) = Len(PairRatios)

\* the hue angle of a paint, in thousandths of a degree, in (-180, 180]
HueAngle(p) == Atan2(PaintLab(p).b, PaintLab(p).a)

\* the angular distance on the circle, in [0, 180] degrees, between the hue
\* of candidate q and the hue opposite the hue of paint p
ComplementDistance(p, q) ==
    Min((HueAngle(q) - HueAngle(p) - 180000) % 360000,
        360000 - ((HueAngle(q) - HueAngle(p) - 180000) % 360000))

\* the paints of the list findComplementaryPaints may return for paint p
ComplementCandidates(p, list) ==
    {list[i] : i \in {k \in 1..Len(list) :
        /\ HasLab(list[k])
        /\ list[k] # p
        /\ paintDatabase[list[k]].brand = paintDatabase[p].brand}}

\* helper of C24: at most 3 paints, of the paint's brand, none the paint
ComplementsAreOtherBrandPaints ==
    callPc = "complement_done" =>
        /\ Len(callResult) <= 3
        /\ \A n \in 1..Len(callResult) :
               callResult[n] \in ComplementCandidates(callArgs[1], callArgs[2])

\* C24: findComplementaryPaints returns at most 3 paints of the paint's
\* brand, none the paint itself, nearest first by the circular distance
\* between the candidate's hue and the hue opposite the paint's hue
ComplementsRankedByCircularDistance ==
    (callPc = "complement_done" /\ HasLab(callArgs[1])) =>
        /\ Len(callResult) <= 3
        /\ \A n \in 1..Len(callResult) :
               callResult[n] \in ComplementCandidates(callArgs[1], callArgs[2])
        /\ \A n \in 1..(Len(callResult) - 1) :
               ComplementDistance(callArgs[1], callResult[n])
                 <= ComplementDistance(callArgs[1], callResult[n + 1])
        /\ \A q \in ComplementCandidates(callArgs[1], callArgs[2]) :
               \/ \E n \in 1..Len(callResult) : callResult[n] = q
               \/ \A n \in 1..Len(callResult) :
                      ComplementDistance(callArgs[1], callResult[n])
                        <= ComplementDistance(callArgs[1], q)

\* helper of C24: the ranking is right when the hue opposite the paint's,
\* taken in [0, 360), is less than 360 degrees away from every candidate
ComplementsRankedWithoutWrap ==
    (/\ callPc = "complement_done"
     /\ HasLab(callArgs[1])
     /\ \A q \in ComplementCandidates(callArgs[1], callArgs[2]) :
          ((HueAngle(callArgs[1]) + 180000) % 360000) - HueAngle(q) <= 360000)
    => ComplementsRankedByCircularDistance

\* the matches hold the white tint of paints p1 and p2 at the given split
HasWhiteTint(matches, p1, p2, whitePaint, split) ==
    \E m \in 1..Len(matches) :
        matches[m].paints = <<Component(p1, split[1]), Component(p2, split[2]),
                              Component(whitePaint, split[3])>>

\* every shortlisted paint is tinted, at each split, with each shortlisted
\* paint whose index differs from its own, or with the earlier ones only
WhiteTintsCover(matches, cl, whitePaint, earlierOnly) ==
    \A i, j \in 1..Len(cl) :
        (i # j /\ (earlierOnly => j < i)) =>
            \A n \in 1..Len(WhiteTintRatioSets) :
                HasWhiteTint(matches, cl[i], cl[j], whitePaint,
                             WhiteTintRatioSets[n])

\* the call of findTernaryMixes has returned and its catalogue has a white
\* paint with a lab
TernaryDoneWithWhite ==
    /\ callPc = "ternary_done"
    /\ \E k \in 1..Len(callArgs[2]) : IsWhite(callArgs[2][k])
    /\ HasLab(SelectSeq(callArgs[2], IsWhite)[1])

\* C25: with a white paint that has a lab and budget left, the white tint
\* (paint i, paint j, white) is evaluated at each of the three splits for
\* every pair of distinct shortlist indexes i and j
WhiteTintsCoverEveryOrderedPair ==
    TernaryDoneWithWhite =>
        WhiteTintsCover(callResult, ClosestPaints(callArgs[1], callArgs[2]),
                        SelectSeq(callArgs[2], IsWhite)[1],
                        FALSE)

\* helper of C25: the tints of every paint with the paints before it on the
\* shortlist are evaluated
WhiteTintsCoverEarlierPaints ==
    TernaryDoneWithWhite =>
        WhiteTintsCover(callResult, ClosestPaints(callArgs[1], callArgs[2]),
                        SelectSeq(callArgs[2], IsWhite)[1],
                        TRUE)

----------------------------------------------------------------------------
(* Properties of the clustering loop *)

ChannelSum(f, n, channel) ==
    SumSeq([i \in 1..Len(colors) |->
               IF f[i] = n THEN colors[i][channel] ELSE 0])

\* f counts every sample in one returned cluster, as the assignment of the
\* last pass groups them; the centroid of that cluster is as near to the
\* sample as any returned centroid, and every returned centroid is the
\* rounded mean of the samples counted in its cluster
FixedPointUnder(f) ==
    /\ \A i, j \in 1..Len(colors) :
           (f[i] = f[j]) <=> (clusters[i] = clusters[j])
    /\ \A i \in 1..Len(colors) : \A n \in 1..Len(colorClusters) :
           colorDistance(colors[i], colorClusters[f[i]].centroid)
             <= colorDistance(colors[i], colorClusters[n].centroid)
    /\ \A n \in 1..Len(colorClusters) :
           /\ colorClusters[n].count = MembersOf(f, n)
           /\ NearestInteger(colorClusters[n].centroid.r,
                  ChannelSum(f, n, "r"), colorClusters[n].count)
           /\ NearestInteger(colorClusters[n].centroid.g,
                  ChannelSum(f, n, "g"), colorClusters[n].count)
           /\ NearestInteger(colorClusters[n].centroid.b,
                  ChannelSum(f, n, "b"), colorClusters[n].count)

\* C27: when clusterColors returns after a pass without change, before the
\* cap, every sample is counted in a cluster whose returned centroid is at
\* minimal distance from it among the returned centroids, and every
\* returned centroid is the rounded mean of the samples of its cluster
ConvergedResultIsFixedPoint ==
    (Clustered /\ Len(colors) > 0 /\ ~hasChanged /\ iterations < 10) =>
        \E f \in [1..Len(colors) -> 1..Len(colorClusters)] :
            FixedPointUnder(f)

\* clusterColors converged on two clusters, one of them with two different
\* samples
ConvergedOnTwoClusters ==
    /\ Clustered
    /\ ~hasChanged
    /\ iterations >= 2
    /\ Len(colorClusters) = 2
    /\ \E n \in 1..2 : \A i \in 1..Len(colors) :
           colorClusters[n].centroid # colors[i]

\* a pass has just ended in which a centroid without members was reseeded
\* from a random sample, and the cap allows another pass
ReseededBeforeCap ==
    /\ clusterPc = "loop"
    /\ iterations >= 1
    /\ iterations < 10
    /\ \E j \in 1..clusterK : MembersOf(clusters, j) = 0

\* C28: after a pass that reseeded an empty centroid and was not the last
\* the cap allows, a further assignment pass is run, in which the samples
\* are compared against the reseeded centroid
ReseededCentroidGetsAPass ==
    ReseededBeforeCap => ENABLED ClusterIterate

----------------------------------------------------------------------------
(* Properties of the components of a recipe *)

\* the components of the recipe are pairwise distinct paints
PairwiseDistinctPaints(recipe) ==
    \A i, j \in 1..Len(recipe.paints) :
        i # j => recipe.paints[i].paint # recipe.paints[j].paint

\* C29: no recipe returned by findOptimalPaintMixture lists a paint twice,
\* the recipes of the white ladder, the black ladder and the white tints
\* included
OptimalRecipesOfDistinctPaints ==
    Returned("optimal") =>
        \A n \in 1..Len(result) : PairwiseDistinctPaints(result[n])

\* helper of C29: without a white and without a black paint in the
\* catalog no returned recipe repeats a paint
OptimalRecipesDistinctWithoutWhiteAndBlack ==
    (Returned("optimal") /\ missing = {}
        /\ \A k \in 1..Len(catalog) :
               ~IsWhite(catalog[k]) /\ ~IsBlack(catalog[k])) =>
        \A n \in 1..Len(result) : PairwiseDistinctPaints(result[n])

----------------------------------------------------------------------------
(* Properties of the sampling loop *)

\* C30: the sampling loop of extractDominantColors ends for every image of
\* at least one pixel and every sampleCount >= 1, and its index grows in
\* every iteration
SamplingLoopTerminates ==
    /\ [][(callPc = "sample_loop" /\ callPc' = "sample_loop") =>
            callResult'.i > callResult.i]_vars
    /\ (callPc = "sample_called" ~> callPc = "sampled")

\* helper of C30: the loop ends, with a growing index and at most as many
\* samples as bytes, when sampleCount is at most width * height * 4
SamplingTerminatesWithinData ==
    /\ [][(callPc = "sample_loop" /\ callPc' = "sample_loop"
              /\ callArgs[3] <= DataLength(callArgs[1], callArgs[2])) =>
            callResult'.i > callResult.i]_vars
    /\ [](callPc = "sampled" =>
            callResult.collected <= DataLength(callArgs[1], callArgs[2]))
    /\ ((callPc = "sample_called"
           /\ callArgs[3] <= DataLength(callArgs[1], callArgs[2]))
          ~> callPc = "sampled")


====
